---------------------------- MODULE Spec2Model ----------------------------
(***************************************************************************)
(* PetcubeHelper: the pattern dispatcher (modules/patterns.py), the        *)
(* command patterns (patterns/base_pattern.py), the reactive generators    *)
(* (modules/vision/cat_patterns.py) and the continuous scheduler           *)
(* (petcubehelper.py), as state machines.                                  *)
(*                                                                         *)
(* Conventions.  Intensity is held in tenths (1..10 for 0.1..1.0), time in *)
(* milliseconds, coordinates in pixels.  One module holds several          *)
(* specifications over the same variables; each specification moves the    *)
(* variables of the subsystem it is about and leaves the others alone.     *)
(***************************************************************************)
EXTENDS Integers, Sequences, FiniteSets, TLC

VARIABLES
    \* ---- scheduler (petcubehelper.py) ----
    stop_event,         \* threading.Event stop_event: TRUE when set
    buttons,            \* <<Start enabled, Stop enabled>>, set by ui.enable_pattern_buttons
    cat_detection_var,  \* ui.cat_detection_var, the tracking checkbox
    cat_detector,       \* TRUE once PetCubeHelper.cat_detector is not None
    loop,               \* the continuous_pattern_loop thread
    pattern_active,     \* PatternExecutor.pattern_active
    time_unit_ms,       \* the time unit handed to the dispatcher by start_pattern
    enforce_safe_zone,  \* PatternExecutor.enforce_safe_zone
    taps_since_stop,    \* observer: taps the loop dispatched since stop_event was set (capped)
    \* ---- safe zone: configuration thread against execute_tap ----
    safe_zone,          \* PatternExecutor.safe_zone, the pixel rectangle
    safe_zone_pct,      \* ConfigManager.settings['safe_zone_pct'], in 1/10000
    screen,             \* <<screen_width, screen_height>>, <<>> before launch_app
    call,               \* the execute_tap call in progress on the scheduler thread
    held,               \* observer: the safe-zone values the dispatcher held during the call
    \* ---- safety timer and pattern timing ----
    idle_ms,            \* now - PatternExecutor.last_movement_time, in ms (capped)
    gap_ms,             \* observer: time since the session's last dispatched tap (capped)
    device,             \* ADBUtility.selected_device is not None
    last,               \* observer: the dispatcher operation that completed last
    sess,               \* the continuous loop executing PatternExecutor patterns, in time
    dsl,                \* BasePattern.execute interpreting a command list
    \* ---- reactive generators (modules/vision/cat_patterns.py) ----
    cat_pos,            \* CatDetector.get_cat_position(): <<x, y, w, h>>, or <<>> for None
    gen,                \* the reactive generator in progress
    \* ---- the generators' fallback (execute_kitty_mode_pattern) ----
    fb,                 \* a reactive generator called on a given random stream
    \* ---- the tracker (modules/vision/cat_detector.py) ----
    cat_positions,      \* CatDetector.cat_positions, oldest first
    det,                \* the detector's fields and its _detection_loop thread
    obs,                \* observer: what was captured, when, and what detect_cat returned last
    mv,                 \* the get_cat_movement_vector call in progress on the scheduler thread
    \* ---- the configuration boundary (modules/config.py) ----
    cfg,                \* observer: the configuration operation that completed last
    \* ---- the pattern library (patterns/*.py) ----
    lib,                \* a library pattern under construction (_setup_commands)
    mvx,                \* BasePattern._execute_move of one Move, and the tap dispatched again
    saf,                \* safety_verbose, and the latest make_safety_movement as it was observed
    \* ---- threads and executions taken one by one ----
    iv,                 \* pattern_loop, the interval-based scheduler
    thr,                \* the loop threads start_pattern has created
    dth,                \* the detection threads start_detection has created
    xp,                 \* PatternExecutor.execute_pattern, one call
    rp                  \* one pattern object and its executions

schedRest == <<stop_event, cat_detection_var, cat_detector, loop,
               pattern_active, time_unit_ms, taps_since_stop>>

schedOther == <<schedRest, buttons>>

schedVars == <<schedOther, enforce_safe_zone>>

zoneVars == <<safe_zone, safe_zone_pct, screen, call, held>>

timeVars == <<idle_ms, gap_ms, device, last, sess, dsl>>

reactVars == <<cat_pos, gen>>

\* The state of the specifications that follow the reactive one.
trkVars == <<cat_positions, det, obs, mv>>

extVars == <<iv, thr, dth, xp, rp>>

libVars == <<lib, mvx, saf, extVars>>

auxVars == <<fb, trkVars, cfg, libVars>>

\* What the fallback specification leaves alone.
notFb == <<schedVars, zoneVars, timeVars, reactVars, trkVars, cfg, libVars>>

\* What the tracker specification leaves alone.
notTrk == <<schedVars, zoneVars, timeVars, gen, fb, cfg, libVars>>

\* What the scheduler's handlers leave alone, the detection thread apart.
notSchedDet == <<zoneVars, timeVars, reactVars, fb, cat_positions, obs, mv, cfg, libVars>>

\* What the specifications of single threads and executions leave alone.
notExt == <<schedVars, zoneVars, timeVars, reactVars, fb, trkVars, cfg, lib, mvx, saf>>

\* What the library specification leaves alone.
notLib == <<schedVars, zoneVars, timeVars, reactVars, fb, trkVars, cfg>>

vars == <<schedVars, zoneVars, timeVars, reactVars, auxVars>>

\* What lies outside the scheduler and the safe zone.
restVars == <<timeVars, reactVars, auxVars>>

\* What the scheduler specification leaves alone.
notSched == <<zoneVars, restVars>>

\* What the timing specification leaves alone.
notTime == <<schedVars, zoneVars, reactVars, auxVars>>

\* What the reactive specification leaves alone.
notReact == <<schedVars, zoneVars, timeVars, auxVars>>

\* int(a / b) for b > 0: truncation toward zero
TruncDiv(a, b) == IF a >= 0 THEN a \div b ELSE -((-a) \div b)

Max(a, b) == IF a >= b THEN a ELSE b
Min(a, b) == IF a <= b THEN a ELSE b

---------------------------------------------------------------------------
(* Pattern names.                                                          *)

ReactivePatterns == {"Cat Following", "Cat Teasing", "Cat Enrichment"}

BasicPatterns == {"Random", "Circular", "Laser Pointer", "Fixed Points", "Kitty Mode"}

\* The entries of the pattern combobox.
PatternNames == BasicPatterns \cup ReactivePatterns

\* The intensities the model runs with, in tenths: the slider's two ends and its default.
Intensities == {1, 5, 10}

\* The time unit start_pattern hands over, in ms (the dispatcher starts with 1000).
TimeUnits == {500}

---------------------------------------------------------------------------
(* The safe zone: ConfigManager (modules/config.py), the application's     *)
(* update_safe_zone and launch_app (petcubehelper.py), and                 *)
(* PatternExecutor.execute_tap read by read.  update_safe_zone runs on a   *)
(* thread of its own (UICallbacks.update_safe_zone), execute_tap on the    *)
(* scheduler thread, so the rebinding of PatternExecutor.safe_zone can     *)
(* fall between any two of execute_tap's four reads of it.                 *)

\* PatternExecutor.__init__: the zone before any configuration reaches the dispatcher
DefaultSafeZone == [min_x |-> 0, max_x |-> 1080, min_y |-> 0, max_y |-> 960]

\* ConfigManager.__init__: settings['safe_zone_pct'] = 0.3, 0.7, 0.5, 0.9; the
\* fractions are kept in 1/10000 (the fields take a percentage with decimals).
DefaultSafeZonePct == [min_x |-> 3000, max_x |-> 7000, min_y |-> 5000, max_y |-> 9000]

\* The resolutions get_screen_dimensions reports in the model.
Screens == {<<1080, 1920>>}

\* The percentages typed into the safe-zone fields: 0, 50 and 100 %.
PctChoices == {0, 5000, 10000}

\* What can be typed when the fields themselves are examined: below 0, above
\* 100 %, and 50.04 %, which is 540 px of 1080 as 50 % is.
FieldChoices == {-100, 0, 5000, 5004, 15000}

\* safe_zone_pct in a settings file: absent, a valid rectangle, an inverted one.
SavedSettings == {[min_x |-> 1000, max_x |-> 9000, min_y |-> 1000, max_y |-> 9000],
                  [min_x |-> 7000, max_x |-> 3000, min_y |-> 5000, max_y |-> 9000]}

\* The coordinates patterns ask execute_tap for: left of, inside and right of the
\* screen (a pattern's last + distance * cos(angle) can leave the screen).
XRequests == {-10, 100, 600, 1200}
YRequests == {-10, 500, 1500, 2000}

\* How many safe-zone updates may fall inside one execute_tap call.
MaxRace == 1

\* ConfigManager.update_safe_zone: the validation of the fractions 0..1
ValidSafeZonePct_ordered(min_x, max_x, min_y, max_y) ==
    /\ ~(min_x >= max_x)
    /\ ~(min_y >= max_y)

ValidSafeZonePct(min_x, max_x, min_y, max_y) ==
    /\ ~(min_x >= max_x)
    /\ ~(min_y >= max_y)
    /\ \A v \in {min_x, max_x, min_y, max_y} : 0 <= v /\ v <= 10000

\* ConfigManager.calculate_safe_zone_pixels: int(screen * fraction) per bound
calculate_safe_zone_pixels(pct, screen_width, screen_height) ==
    [min_x |-> TruncDiv(screen_width * pct.min_x, 10000),
     max_x |-> TruncDiv(screen_width * pct.max_x, 10000),
     min_y |-> TruncDiv(screen_height * pct.min_y, 10000),
     max_y |-> TruncDiv(screen_height * pct.max_y, 10000)]

InZone(x, y, z) == z.min_x <= x /\ x <= z.max_x /\ z.min_y <= y /\ y <= z.max_y

\* execute_tap: max(lo, min(v, hi))
Clamp(v, lo, hi) == Max(lo, Min(v, hi))

NoCall == [pc |-> "idle", x |-> 0, y |-> 0, enf |-> FALSE, rd |-> <<>>, nupd |-> 0]

\* An execute_tap call holds the zone between its entry and the device tap.
CallOpen == call.pc \in {"min_x", "max_x", "min_y", "max_y", "tap"}

\* PetCubeUI.enable_pattern_buttons
enable_pattern_buttons(start_enabled, stop_enabled) == <<start_enabled, stop_enabled>>

\* PatternExecutor.set_safe_zone: the attribute is rebound to the new dictionary.
set_safe_zone(z) ==
    /\ CallOpen => call.nupd < MaxRace
    /\ safe_zone' = z
    /\ held' = IF CallOpen THEN held \cup {z} ELSE held
    /\ call' = IF CallOpen THEN [call EXCEPT !.nupd = @ + 1] ELSE call

\* PetCubeHelper.launch_app: the resolution becomes known, the zone is derived and set.
launch_app ==
    /\ \E dims \in Screens :
          /\ screen' = dims
          /\ set_safe_zone(calculate_safe_zone_pixels(safe_zone_pct, dims[1], dims[2]))
    /\ buttons' = enable_pattern_buttons(TRUE, FALSE)
    /\ cfg' = [cfg EXCEPT !.op = "launch_app"]
    /\ UNCHANGED <<safe_zone_pct, schedRest, enforce_safe_zone>>
    /\ UNCHANGED <<timeVars, reactVars, fb, trkVars, libVars>>

\* PetCubeHelper.update_safe_zone on four values read from the fields: rejected
\* values change nothing; accepted ones are stored and, once the resolution is
\* known, turned into pixels and handed to the dispatcher.
UpdateSafeZone(min_x, max_x, min_y, max_y) ==
    IF ~ValidSafeZonePct(min_x, max_x, min_y, max_y)
    THEN UNCHANGED zoneVars
    ELSE LET pct == [min_x |-> min_x, max_x |-> max_x,
                     min_y |-> min_y, max_y |-> max_y] IN
         /\ safe_zone_pct' = pct
         /\ IF screen # <<>>
            THEN set_safe_zone(calculate_safe_zone_pixels(pct, screen[1], screen[2]))
            ELSE UNCHANGED <<safe_zone, held, call>>
         /\ UNCHANGED screen

\* PetCubeHelper.update_safe_zone while patterns run.
update_safe_zone ==
    /\ \E min_x \in PctChoices, max_x \in PctChoices,
          min_y \in PctChoices, max_y \in PctChoices :
          UpdateSafeZone(min_x, max_x, min_y, max_y)
    /\ UNCHANGED schedVars
    /\ UNCHANGED restVars

\* PatternExecutor.enable_safe_zone
enable_safe_zone ==
    /\ \E enabled \in BOOLEAN : enforce_safe_zone' = enabled
    /\ UNCHANGED <<schedOther, zoneVars>>
    /\ UNCHANGED restVars

\* execute_tap(x, y) is entered: the enforcement flag is read.  Patterns run
\* only once launch_app has enabled the Start button.
tap_call ==
    /\ call.pc = "idle"
    /\ screen # <<>>
    /\ \E x \in XRequests, y \in YRequests :
          call' = [NoCall EXCEPT !.pc = IF enforce_safe_zone THEN "min_x" ELSE "tap",
                                 !.x = x, !.y = y, !.enf = enforce_safe_zone]
    /\ held' = {safe_zone}
    /\ UNCHANGED <<safe_zone, safe_zone_pct, screen, schedVars>>
    /\ UNCHANGED restVars

\* One read of self.safe_zone[...]; after the second read of a line the
\* coordinate is clamped with the two bounds read.
tap_read_bound ==
    /\ call.pc \in {"min_x", "max_x", "min_y", "max_y"}
    /\ call' =
         CASE call.pc = "min_x" ->
                 [call EXCEPT !.pc = "max_x", !.rd = Append(@, safe_zone.min_x)]
           [] call.pc = "max_x" ->
                 [call EXCEPT !.pc = "min_y", !.rd = Append(@, safe_zone.max_x),
                              !.x = Clamp(@, call.rd[1], safe_zone.max_x)]
           [] call.pc = "min_y" ->
                 [call EXCEPT !.pc = "max_y", !.rd = Append(@, safe_zone.min_y)]
           [] call.pc = "max_y" ->
                 [call EXCEPT !.pc = "tap", !.rd = Append(@, safe_zone.max_y),
                              !.y = Clamp(@, call.rd[3], safe_zone.max_y)]
    /\ UNCHANGED <<safe_zone, safe_zone_pct, screen, held, schedVars>>
    /\ UNCHANGED restVars

\* self.adb.tap_screen(x, y): the point goes to the device.
tap_forward ==
    /\ call.pc = "tap"
    /\ call' = [call EXCEPT !.pc = "sent"]
    /\ UNCHANGED <<safe_zone, safe_zone_pct, screen, held, schedVars>>
    /\ UNCHANGED restVars

\* update_movement_timer and the return.
tap_return ==
    /\ call.pc = "sent"
    /\ call' = NoCall
    /\ UNCHANGED <<safe_zone, safe_zone_pct, screen, held, schedVars>>
    /\ UNCHANGED restVars

ZoneInit ==
    /\ safe_zone = DefaultSafeZone
    /\ safe_zone_pct = DefaultSafeZonePct
    /\ screen = <<>>
    /\ call = NoCall
    /\ held = {}

NextZone ==
    \/ launch_app
    \/ update_safe_zone
    \/ enable_safe_zone
    \/ tap_call
    \/ tap_read_bound
    \/ tap_forward
    \/ tap_return

---------------------------------------------------------------------------
(* The number of taps one execution of a pattern dispatches                *)
(* (PatternExecutor.execute_*_pattern).  i is the intensity in tenths, so  *)
(* int(k * intensity) is (k * i) \div 10.                                  *)

\* execute_random_pattern: num_taps = max(3, int(7 * intensity))
RandomTaps(i) == Max(3, (7 * i) \div 10)

\* execute_circular_pattern: num_points = max(8, int(16 * intensity))
CircularTaps(i) == Max(8, (16 * i) \div 10)

\* execute_laser_pointer_pattern: num_moves = max(10, int(20 * intensity))
LaserTaps(i) == Max(10, (20 * i) \div 10)

\* execute_fixed_pattern: repeats = max(1, int(3 * intensity)), four points each
FixedTaps(i) == 4 * Max(1, (3 * i) \div 10)

\* _execute_prey_movement: num_moves = max(15, int(30 * intensity))
PreyTaps(i) == Max(15, (30 * i) \div 10)

\* _execute_stalking_prey: max(3, int(6 * intensity)) sequences of 3..5 slow taps and a dart
StalkingTaps(i) == LET n == Max(3, (6 * i) \div 10) IN (n * 4) .. (n * 6)

\* _execute_hiding_prey: max(4, int(8 * intensity)) sequences; the freeze loop
\* (0.3..0.7 s, 0.2 s per turn) taps 1..4 times, then one dash
HidingTaps(i) == LET n == Max(4, (8 * i) \div 10) IN (n * 2) .. (n * 5)

\* _execute_fleeing_prey: num_moves = max(8, int(15 * intensity))
FleeingTaps(i) == Max(8, (15 * i) \div 10)

\* execute_pattern: the numbers of taps an execution of pattern type p can dispatch;
\* a type it does not know dispatches none and returns False.
TapCounts(p, i) ==
    CASE p = "Random"        -> {RandomTaps(i)}
      [] p = "Circular"      -> {CircularTaps(i)}
      [] p = "Laser Pointer" -> {LaserTaps(i)}
      [] p = "Fixed Points"  -> {FixedTaps(i)}
      [] p = "Kitty Mode"    -> {PreyTaps(i), FleeingTaps(i)} \cup StalkingTaps(i) \cup HidingTaps(i)
      [] OTHER               -> {0}

---------------------------------------------------------------------------
(* The continuous scheduler: PetCubeHelper.start_pattern, stop_pattern and *)
(* continuous_pattern_loop.  The model holds one loop thread: Start is     *)
(* taken only when no earlier loop is still alive.                         *)

\* left is next_pattern_change - time.time() in seconds, 0 once the change is
\* due; chg is what the latest pass of the loop head did, for the observer.
NoLoop == [pc |-> "none", main |-> "Random", cur |-> "Random",
           intensity |-> 5, full |-> FALSE, rem |-> 0,
           interval |-> 0, left |-> 0, chg |-> <<>>]

\* The intervals the Interval field may hold, in seconds.
ChangeIntervals == {1, 2}

\* The seconds one pass of the loop may take (execute_pattern and the gap).
Durations == {1}

LoopAlive == loop.pc \notin {"none", "exited"}

\* PatternExecutor.set_time_unit is called by start_pattern and is not part of
\* modules/patterns.py: it stores the time unit.
set_time_unit(ms) == ms

\* continuous_pattern_loop: all_patterns
Catalog(full) == IF full THEN PatternNames ELSE BasicPatterns

StopObserved_never == FALSE

\* while not self.stop_event.is_set(): what the loop head sees of the flag
StopObserved == stop_event

\* One tap handed to the dispatcher by the loop thread, seen by the observer.
CountTap == taps_since_stop' = IF stop_event THEN Min(2, taps_since_stop + 1) ELSE 0

\* CatDetector.start_detection: nothing while detection is active, else the
\* flag is set and the thread started.
StartDetection(d) ==
    IF d.active THEN d
    ELSE [d EXCEPT !.active = TRUE, !.pc = IF d.pc = "idle" THEN "head" ELSE d.pc]

\* CatDetector.stop_detection: the flag is cleared; the thread leaves at its
\* next loop head, joined for a second at most.
StopDetection(d) == [d EXCEPT !.active = FALSE]

\* A stop_pattern that stops the detection with the patterns.
TrackerAtStop_stopped(d) == StopDetection(d)

\* The detection thread as PetCubeHelper.stop_pattern leaves it.
TrackerAtStop(d) == d

\* PetCubeHelper.start_pattern with the pattern and intensity fields holding
\* one of the given values.
StartPattern(patterns, intensities) ==
    /\ buttons[1]
    /\ ~LoopAlive
    /\ \E p \in patterns, i \in intensities, tu \in TimeUnits, e \in BOOLEAN :
          IF p \in ReactivePatterns /\ ~cat_detection_var
          THEN UNCHANGED schedVars
          ELSE /\ enforce_safe_zone' = e
               /\ time_unit_ms' = set_time_unit(tu)
               /\ stop_event' = FALSE
               /\ pattern_active' = TRUE
               /\ buttons' = enable_pattern_buttons(FALSE, TRUE)
               /\ \E interval \in ChangeIntervals :
                     loop' = [NoLoop EXCEPT !.pc = "init", !.main = p, !.cur = p,
                                            !.intensity = i, !.interval = interval]
               /\ taps_since_stop' = 0
               /\ UNCHANGED <<cat_detection_var, cat_detector>>
    /\ UNCHANGED notSched

start_pattern == StartPattern(PatternNames, Intensities)

stop_pattern ==
    /\ buttons[2]
    /\ stop_event' = TRUE
    /\ pattern_active' = FALSE
    /\ buttons' = enable_pattern_buttons(TRUE, FALSE)
    /\ taps_since_stop' = IF stop_event THEN taps_since_stop ELSE 0
    /\ det' = TrackerAtStop(det)
    /\ UNCHANGED <<cat_detection_var, cat_detector, loop, time_unit_ms, enforce_safe_zone>>
    /\ UNCHANGED notSchedDet

\* PetCubeHelper.__init__ sets the checkbox from the saved settings; the
\* checkbox's command (toggle_cat_detection) is not called by that.
restore_cat_detection ==
    /\ buttons = <<FALSE, FALSE>>
    /\ \E saved \in BOOLEAN : cat_detection_var' = saved
    /\ UNCHANGED <<stop_event, buttons, cat_detector, loop, pattern_active, time_unit_ms,
                   enforce_safe_zone, taps_since_stop>>
    /\ UNCHANGED notSched

\* The checkbox callback: toggle_cat_detection, with start_cat_detection
\* (the detector is created if there is none, detection is started) or
\* stop_cat_detection (detection is stopped if there is a detector).
toggle_cat_detection ==
    /\ cat_detection_var' = ~cat_detection_var
    /\ IF ~cat_detection_var
       THEN /\ cat_detector' = TRUE
            /\ det' = StartDetection(det)
       ELSE /\ cat_detector' = cat_detector
            /\ det' = IF cat_detector THEN StopDetection(det) ELSE det
    /\ UNCHANGED <<stop_event, buttons, loop, pattern_active, time_unit_ms,
                   enforce_safe_zone, taps_since_stop>>
    /\ UNCHANGED notSchedDet

\* next_pattern_change = current_time + pattern_change_interval, seen from
\* current_time, for an interval that shrinks as the intensity grows.
NextChange_scaled(interval, intensity) == (interval * (10 - intensity)) \div 5

\* next_pattern_change = current_time + pattern_change_interval, seen from
\* current_time.
NextChange(interval, intensity) == interval

\* continuous_pattern_loop up to the while: the catalog is fixed here.
loop_begin ==
    /\ loop.pc = "init"
    /\ loop' = [loop EXCEPT !.pc = "head",
                            !.full = (loop.main \in ReactivePatterns /\ cat_detector),
                            !.left = NextChange(loop.interval, loop.intensity)]
    /\ UNCHANGED <<stop_event, buttons, cat_detection_var, cat_detector,
                   pattern_active, time_unit_ms, enforce_safe_zone, taps_since_stop>>
    /\ UNCHANGED notSched

\* other_patterns = [p for p in all_patterns if p != current_pattern]
OtherPatterns(l) == Catalog(l.full) \ {l.cur}

\* The while test, the pattern change when it is due (the primary pattern if
\* random() < 0.7, else one of other_patterns) and the entry of execute_pattern.
loop_head ==
    /\ loop.pc = "head"
    /\ IF StopObserved
       THEN /\ loop' = [loop EXCEPT !.pc = "exited", !.chg = <<>>]
            /\ UNCHANGED pattern_active
       ELSE \E branch \in (IF loop.left <= 0 THEN {"keep", "vary"} ELSE {"none"}) :
            \E p \in (CASE branch = "keep" -> {loop.main}
                         [] branch = "vary" -> OtherPatterns(loop)
                         [] OTHER -> {loop.cur}) :
            \E n \in TapCounts(p, loop.intensity) :
               /\ loop' = [loop EXCEPT
                              !.cur = p, !.rem = n,
                              !.pc = IF n = 0 THEN "gap" ELSE "run",
                              !.left = IF branch = "none" THEN @
                                       ELSE NextChange(loop.interval, loop.intensity),
                              !.chg = [branch |-> branch, prev |-> loop.cur, at |-> loop.left]]
               /\ pattern_active' = (n # 0)
    /\ UNCHANGED <<stop_event, buttons, cat_detection_var, cat_detector,
                   time_unit_ms, enforce_safe_zone, taps_since_stop>>
    /\ UNCHANGED notSched

\* One sub-step of the pattern being executed: a tap and the sleep after it.
\* The last one leaves execute_pattern (self.stop_pattern()).
pattern_step ==
    /\ loop.pc = "run"
    /\ CountTap
    /\ loop' = [loop EXCEPT !.rem = @ - 1, !.pc = IF loop.rem = 1 THEN "gap" ELSE "run",
                            !.chg = <<>>]
    /\ pattern_active' = IF loop.rem = 1 THEN FALSE ELSE pattern_active
    /\ UNCHANGED <<stop_event, buttons, cat_detection_var, cat_detector,
                   time_unit_ms, enforce_safe_zone>>
    /\ UNCHANGED notSched

\* After execute_pattern: the status line and the 0.1 s gap. The time the
\* pass took has gone by.
loop_gap ==
    /\ loop.pc = "gap"
    /\ \E d \in Durations :
          loop' = [loop EXCEPT !.pc = "head", !.left = Max(0, @ - d), !.chg = <<>>]
    /\ UNCHANGED <<stop_event, buttons, cat_detection_var, cat_detector,
                   pattern_active, time_unit_ms, enforce_safe_zone, taps_since_stop>>
    /\ UNCHANGED notSched

LoopNext == loop_begin \/ loop_head \/ pattern_step \/ loop_gap

SchedInit ==
    /\ stop_event = FALSE
    /\ buttons = <<FALSE, FALSE>>
    /\ cat_detection_var = FALSE
    /\ cat_detector = FALSE
    /\ loop = NoLoop
    /\ pattern_active = FALSE
    /\ time_unit_ms = 1000
    /\ enforce_safe_zone = TRUE
    /\ taps_since_stop = 0

Next ==
    \/ launch_app
    \/ restore_cat_detection
    \/ start_pattern
    \/ stop_pattern
    \/ toggle_cat_detection
    \/ loop_begin
    \/ loop_head
    \/ pattern_step
    \/ loop_gap


---------------------------------------------------------------------------
(* The safety timer and the timing of patterns.  Time is relative: idle_ms *)
(* is now - last_movement_time, a sleep of d ms adds d to it and           *)
(* update_movement_timer sets it to 0.  A random.uniform(a, b) sleep is    *)
(* drawn from its end points.                                              *)

\* check_movement_safety: the 1.0 s threshold, in ms
SafetyThreshold == 1000

\* BasePattern._execute_wait: the 0.8 s slice, in ms
SliceMs == 800

\* continuous_pattern_loop: the 0.1 s sleep between two patterns, in ms
LoopGapMs == 100

\* The polling quantum: the 0.2 s sleep of the interval loop, in ms
Quantum == 200

\* The cap on the elapsed times the model tracks.
MaxIdle == 3000

\* The time units handed to BasePattern.set_time_unit.
BaseTimeUnits == {500, 800, 1000, 1600}

SafetyDue_at_threshold(idle) == idle >= SafetyThreshold

\* check_movement_safety: time_since_last_movement > 1.0
SafetyDue(idle) == idle > SafetyThreshold

WaitNeedsSlice_at_slice(wait_time) == wait_time >= SliceMs

\* _execute_wait: while wait_time > 0.8
WaitNeedsSlice(wait_time) == wait_time > SliceMs

\* ADBUtility.tap_screen: False without a device, else True, or False on SubprocessError
tap_screen(dev) == IF dev THEN {TRUE, FALSE} ELSE {FALSE}

update_movement_timer_on_success(success, idle) == IF success THEN 0 ELSE idle

\* execute_tap: update_movement_timer() follows the device tap whatever it returned.
update_movement_timer(success, idle) == 0

Elapse(t, d) == Min(MaxIdle, t + d)

NoOp == [op |-> "none", idle |-> 0, result |-> FALSE, returned |-> FALSE]

\* PatternExecutor.execute_tap after a sleep of d ms (d = 0: at once).
execute_tap(d) ==
    \E success \in tap_screen(device) :
        /\ idle_ms' = update_movement_timer(success, Elapse(idle_ms, d))
        /\ gap_ms' = 0
        /\ last' = [op |-> "execute_tap", idle |-> Elapse(idle_ms, d),
                    result |-> success, returned |-> success]

\* time.sleep(d)
sleep(d) ==
    /\ idle_ms' = Elapse(idle_ms, d)
    /\ gap_ms' = IF sess.pc = "off" THEN 0 ELSE Elapse(gap_ms, d)
    /\ last' = [NoOp EXCEPT !.op = "sleep"]

\* The sleep after a tap, per pattern (execute_*_pattern), in ms at intensity i tenths.
RandomSleeps(i) == {200, Max(200, 150 * (10 - i))}
CircularSleeps(i) == {Max(100, 50 * (10 - i))}
LaserSleeps(i) == {Max(100, (speed * (10 - i)) \div 10) : speed \in {100, 300, 800}}
FixedSleeps(i) == {Max(200, 80 * (10 - i))}
PreySleeps == {100, 300}
StalkingSleeps == {400, 700} \cup {500, 900}
HidingSleeps == {200} \cup {200, 400}
FleeingSleeps == {200, 400}

\* execute_kitty_mode_pattern picks one of four movements.
Kinds(p) == IF p = "Kitty Mode" THEN {"prey", "stalking", "hiding", "fleeing"} ELSE {p}

KindSleeps(k, i) ==
    CASE k = "Random" -> RandomSleeps(i)
      [] k = "Circular" -> CircularSleeps(i)
      [] k = "Laser Pointer" -> LaserSleeps(i)
      [] k = "Fixed Points" -> FixedSleeps(i)
      [] k = "prey" -> PreySleeps
      [] k = "stalking" -> StalkingSleeps
      [] k = "hiding" -> HidingSleeps
      [] k = "fleeing" -> FleeingSleeps

KindTaps(k, i) ==
    CASE k = "prey" -> {PreyTaps(i)}
      [] k = "stalking" -> StalkingTaps(i)
      [] k = "hiding" -> HidingTaps(i)
      [] k = "fleeing" -> {FleeingTaps(i)}
      [] OTHER -> TapCounts(k, i)

\* planned, issued, failed_first: observers of one execute_pattern (the taps its
\* draws call for, the taps it dispatched, whether its first tap failed).
NoSess == [pc |-> "off", kind |-> "Random", intensity |-> 5, rem |-> 0,
           planned |-> 0, issued |-> 0, failed_first |-> FALSE]

\* The patterns call execute_tap as a statement: whatever it returns, the sleep
\* that follows the tap is next (the variant leaves the pattern on a failure).
AfterTap_abort(success) == IF success THEN "sleep" ELSE "gap"

AfterTap(success) == "sleep"

NoDsl == [pc |-> "off", cmds |-> <<>>, intensity |-> 5, time_unit_ms |-> 1000,
          units10 |-> 0, W |-> 0, wait_time |-> 0, trace |-> <<>>]

Quiet == sess.pc = "off" /\ dsl.pc = "off"

\* ADBUtility.set_active_device
set_active_device ==
    /\ ~device
    /\ device' = TRUE
    /\ UNCHANGED <<idle_ms, gap_ms, last, sess, dsl>>
    /\ UNCHANGED notTime

\* Time passes while no pattern runs.
tick ==
    /\ Quiet
    /\ sleep(Quantum)
    /\ UNCHANGED <<device, sess, dsl>>
    /\ UNCHANGED notTime

\* PatternExecutor.check_movement_safety, callable at any moment
check_movement_safety ==
    /\ last' = [op |-> "check", idle |-> idle_ms, result |-> SafetyDue(idle_ms),
                returned |-> SafetyDue(idle_ms)]
    /\ UNCHANGED <<idle_ms, gap_ms, device, sess, dsl>>
    /\ UNCHANGED notTime

\* PatternExecutor.make_safety_movement called on its own
make_safety_movement ==
    /\ Quiet
    /\ execute_tap(0)
    /\ UNCHANGED <<device, sess, dsl>>
    /\ UNCHANGED notTime

\* continuous_pattern_loop starts: update_movement_timer, then the loop head.
\* The session runs the five patterns execute_pattern implements.
session_start ==
    /\ Quiet
    /\ device
    /\ \E p \in BasicPatterns, i \in Intensities :
          sess' = [NoSess EXCEPT !.pc = "head", !.kind = p, !.intensity = i]
    /\ idle_ms' = 0
    /\ gap_ms' = 0
    /\ last' = [NoOp EXCEPT !.op = "update_movement_timer"]
    /\ UNCHANGED <<device, dsl>>
    /\ UNCHANGED notTime

\* The loop head: stop observed, or a pattern is chosen and execute_pattern entered.
session_head ==
    /\ sess.pc = "head"
    /\ \/ /\ sess' = NoSess
          /\ gap_ms' = 0
       \/ /\ \E p \in BasicPatterns : \E k \in Kinds(p) : \E n \in KindTaps(k, sess.intensity) :
                sess' = [sess EXCEPT !.pc = "tap", !.kind = k, !.rem = n, !.planned = n,
                                     !.issued = 0, !.failed_first = FALSE]
          /\ UNCHANGED gap_ms
    /\ UNCHANGED <<idle_ms, device, last, dsl>>
    /\ UNCHANGED notTime

\* One tap of the pattern.
session_tap ==
    /\ sess.pc = "tap"
    /\ execute_tap(0)
    /\ sess' = [sess EXCEPT !.pc = AfterTap(last'.result), !.issued = @ + 1,
                            !.failed_first = @ \/ (sess.issued = 0 /\ ~last'.result)]
    /\ UNCHANGED <<device, dsl>>
    /\ UNCHANGED notTime

\* The sleep that follows each tap of the pattern.
session_sleep ==
    /\ sess.pc = "sleep"
    /\ \E d \in KindSleeps(sess.kind, sess.intensity) : sleep(d)
    /\ sess' = [sess EXCEPT !.rem = @ - 1, !.pc = IF sess.rem = 1 THEN "gap" ELSE "tap"]
    /\ UNCHANGED <<device, dsl>>
    /\ UNCHANGED notTime

\* time.sleep(0.1) between two patterns
session_gap ==
    /\ sess.pc = "gap"
    /\ sleep(LoopGapMs)
    /\ sess' = [sess EXCEPT !.pc = "head"]
    /\ UNCHANGED <<device, dsl>>
    /\ UNCHANGED notTime

\* PatternCommand: a move, or a wait of units10 tenths of a time unit
Move == [command_type |-> "move", units10 |-> 0]
Wait(units10) == [command_type |-> "wait", units10 |-> units10]

RECURSIVE Repeat(_, _)
Repeat(cmds, n) == IF n = 0 THEN <<>> ELSE cmds \o Repeat(cmds, n - 1)

\* FixedPointsPattern._setup_commands: six points with wait(1), the centre with wait(1.5)
FixedPointsCommands == Repeat(<<Move, Wait(10)>>, 6) \o <<Move, Wait(15)>>

\* CircularPattern._setup_commands: twelve points with wait(0.5), the closing move with wait(1)
CircularCommands == Repeat(<<Move, Wait(5)>>, 12) \o <<Move, Wait(10)>>

\* A wait that grows with the intensity.
WaitTime_slower(units10, tu, i) == (units10 * tu * (10 + i)) \div 100

\* _execute_wait: units * time_unit_ms / 1000.0 * speed_modifier, with
\* speed_modifier = 2.0 - intensity, in ms
WaitTime(units10, tu, i) == (units10 * tu * (20 - i)) \div 100

Between == dsl.pc \in {"cmd", "waited"}

\* BasePattern.set_time_unit and BasePattern.execute(intensity)
execute ==
    /\ Quiet
    /\ \E cmds \in {FixedPointsCommands, CircularCommands},
          i \in Intensities, tu \in BaseTimeUnits :
          dsl' = [NoDsl EXCEPT !.pc = "cmd", !.cmds = cmds, !.intensity = i,
                               !.time_unit_ms = tu]
    /\ UNCHANGED <<idle_ms, gap_ms, device, last, sess>>
    /\ UNCHANGED notTime

\* BasePattern._execute_move
dsl_execute_move ==
    /\ Between
    /\ dsl.cmds # <<>>
    /\ Head(dsl.cmds).command_type = "move"
    /\ execute_tap(0)
    /\ dsl' = [dsl EXCEPT !.pc = "cmd", !.cmds = Tail(@)]
    /\ UNCHANGED <<device, sess>>
    /\ UNCHANGED notTime

\* BasePattern._execute_wait is entered: wait_time is computed.
dsl_wait_begin ==
    /\ Between
    /\ dsl.cmds # <<>>
    /\ Head(dsl.cmds).command_type = "wait"
    /\ LET w == WaitTime(Head(dsl.cmds).units10, dsl.time_unit_ms, dsl.intensity) IN
          dsl' = [dsl EXCEPT !.pc = "wait", !.units10 = Head(dsl.cmds).units10,
                             !.W = w, !.wait_time = w, !.trace = <<>>]
    /\ UNCHANGED <<idle_ms, gap_ms, device, last, sess>>
    /\ UNCHANGED notTime

\* One turn of the while loop: sleep(0.8), make_safety_movement(), wait_time -= 0.8
dsl_wait_slice ==
    /\ dsl.pc = "wait"
    /\ WaitNeedsSlice(dsl.wait_time)
    /\ execute_tap(SliceMs)
    /\ dsl' = [dsl EXCEPT !.wait_time = @ - SliceMs,
                          !.trace = @ \o <<[op |-> "sleep", ms |-> SliceMs],
                                           [op |-> "tap", ms |-> 0]>>]
    /\ UNCHANGED <<device, sess>>
    /\ UNCHANGED notTime

\* After the loop: if wait_time > 0, sleep(wait_time); the command is done.
dsl_wait_rest ==
    /\ dsl.pc = "wait"
    /\ ~WaitNeedsSlice(dsl.wait_time)
    /\ IF dsl.wait_time > 0
       THEN /\ sleep(dsl.wait_time)
            /\ dsl' = [dsl EXCEPT !.pc = "waited", !.cmds = Tail(@), !.wait_time = 0,
                                  !.trace = Append(@, [op |-> "sleep", ms |-> dsl.wait_time])]
       ELSE /\ dsl' = [dsl EXCEPT !.pc = "waited", !.cmds = Tail(@)]
            /\ UNCHANGED <<idle_ms, gap_ms, last>>
    /\ UNCHANGED <<device, sess>>
    /\ UNCHANGED notTime

\* The command list is exhausted: execute returns.
dsl_return ==
    /\ Between
    /\ dsl.cmds = <<>>
    /\ dsl' = NoDsl
    /\ UNCHANGED <<idle_ms, gap_ms, device, last, sess>>
    /\ UNCHANGED notTime

TimeInit ==
    /\ idle_ms = 0
    /\ gap_ms = 0
    /\ device = FALSE
    /\ last = NoOp
    /\ sess = NoSess
    /\ dsl = NoDsl

NextTime ==
    \/ set_active_device
    \/ tick
    \/ check_movement_safety
    \/ make_safety_movement
    \/ session_start
    \/ session_head
    \/ session_tap
    \/ session_sleep
    \/ session_gap
    \/ execute
    \/ dsl_execute_move
    \/ dsl_wait_begin
    \/ dsl_wait_slice
    \/ dsl_wait_rest
    \/ dsl_return

---------------------------------------------------------------------------
(* The reactive generators: CatReactivePatterns.execute_cat_teasing_pattern *)
(* and execute_cat_enrichment_pattern.  A direction is the pair            *)
(* <<cos(angle), sin(angle)>> in ten-thousandths; int() truncates toward   *)
(* zero.  The tracker thread replaces the position between any two steps.  *)

\* CatReactivePatterns.__init__: tease_distance, in pixels
tease_distance == 200

\* execute_cat_enrichment_pattern: min_distance, in pixels
min_distance == 50

\* The angles random.uniform(0, 2 * pi) is drawn from: the four axes, the four
\* diagonals and one radian.
Directions == {<<10000, 0>>, <<0, 10000>>, <<-10000, 0>>, <<0, -10000>>,
               <<7071, 7071>>, <<-7071, 7071>>, <<7071, -7071>>, <<-7071, -7071>>,
               <<5403, 8415>>}

\* The boxes the tracker reports.
CatBoxes == {<<400, 800, 100, 100>>, <<600, 800, 100, 100>>, <<500, 700, 101, 101>>}

\* x + w//2, y + h//2
Centre(box) == <<box[1] + box[3] \div 2, box[2] + box[4] \div 2>>

Dist2(p, q) == (p[1] - q[1]) * (p[1] - q[1]) + (p[2] - q[2]) * (p[2] - q[2])

\* int(math.cos(angle) * distance), int(math.sin(angle) * distance)
Offset(dir, distance) == <<TruncDiv(dir[1] * distance, 10000), TruncDiv(dir[2] * distance, 10000)>>

\* int(d / sqrt(dx*dx + dy*dy) * len) for one component d of the vector <<dx, dy>> # 0
Along(d, dx, dy, len) ==
    LET q == CHOOSE q \in 0..len :
                 /\ q * q * (dx * dx + dy * dy) <= (d * len) * (d * len)
                 /\ q = len \/ (q + 1) * (q + 1) * (dx * dx + dy * dy) > (d * len) * (d * len)
    IN IF d >= 0 THEN q ELSE -q

\* The teasing retreat: the normalised vector from the subject to the decoy, or
\* (1, 0) at distance 0, times tease_distance, truncated, from the subject.
Retreat(decoy, cat) ==
    LET dx == decoy[1] - cat[1]
        dy == decoy[2] - cat[2]
    IN IF dx = 0 /\ dy = 0
       THEN <<cat[1] + tease_distance, cat[2]>>
       ELSE <<cat[1] + Along(dx, dx, dy, tease_distance),
              cat[2] + Along(dy, dx, dy, tease_distance)>>

\* distance < self.tease_distance
TooClose(decoy, cat) == Dist2(decoy, cat) < tease_distance * tease_distance

\* max(8, int(15 * intensity)) and max(10, int(20 * intensity))
TeasingMoves(i) == Max(8, (15 * i) \div 10)
EnrichmentMoves(i) == Max(10, (20 * i) \div 10)

\* The pair of random.randint(-int(variation), int(variation)) draws, with
\* variation = 30 * intensity: the largest draw on both axes
Drifts(i) == LET v == (30 * i) \div 10 IN {<<v, v>>}

\* random.uniform(min_distance, 200 + 100 * intensity): the ends and a middle value
EnrichmentDistances(i) == {min_distance, 125, 200 + 10 * i}

\* age: the taps computed so far from the reading in use (the lead point of
\* the following pattern, the centre of the enrichment pattern); used: the age
\* the latest tap brought it to.
NoGen == [pc |-> "off", kind |-> "none", intensity |-> 5, rem |-> 0, i |-> 0,
          centre |-> <<0, 0>>, from |-> <<0, 0>>, target |-> <<0, 0>>, ev |-> "none",
          lead |-> <<0, 0>>, age |-> 0, used |-> 0]

\* CatDetector._detection_loop stores a new detection or keeps the last one
\* (last_detection is never cleared).
detect_cat ==
    /\ \E box \in CatBoxes \cup {cat_pos} : cat_pos' = box
    /\ UNCHANGED gen
    /\ UNCHANGED notReact

\* execute_cat_teasing_pattern up to the loop: no position, the fallback; else the
\* decoy starts tease_distance from the subject.
teasing_start ==
    /\ gen.pc = "off"
    /\ \E i \in Intensities :
          IF cat_pos = <<>>
          THEN gen' = [NoGen EXCEPT !.kind = "teasing", !.intensity = i, !.ev = "fallback"]
          ELSE \E dir \in Directions :
                  LET c == Centre(cat_pos)
                      o == Offset(dir, tease_distance)
                  IN gen' = [NoGen EXCEPT !.pc = "loop", !.kind = "teasing", !.intensity = i,
                                          !.rem = TeasingMoves(i), !.centre = c, !.from = c,
                                          !.target = <<c[1] + o[1], c[2] + o[2]>>,
                                          !.ev = "start"]
    /\ UNCHANGED cat_pos
    /\ UNCHANGED notReact

\* One turn of the teasing loop: the tap, the position read again, the next decoy.
teasing_step ==
    /\ gen.pc = "loop"
    /\ gen.kind = "teasing"
    /\ gen.rem > 0
    /\ IF cat_pos = <<>>
       THEN gen' = [gen EXCEPT !.rem = @ - 1, !.ev = "kept"]
       ELSE LET c == Centre(cat_pos) IN
            IF TooClose(gen.target, c)
            THEN gen' = [gen EXCEPT !.rem = @ - 1, !.ev = "retreat", !.from = c,
                                    !.target = Retreat(gen.target, c)]
            ELSE \E v \in Drifts(gen.intensity) :
                    gen' = [gen EXCEPT !.rem = @ - 1, !.ev = "drift", !.from = c,
                                       !.target = <<gen.target[1] + v[1], gen.target[2] + v[2]>>]
    /\ UNCHANGED cat_pos
    /\ UNCHANGED notReact

\* execute_cat_enrichment_pattern up to the loop.
enrichment_start ==
    /\ gen.pc = "off"
    /\ \E i \in Intensities :
          IF cat_pos = <<>>
          THEN gen' = [NoGen EXCEPT !.kind = "enrichment", !.intensity = i, !.ev = "fallback"]
          ELSE gen' = [NoGen EXCEPT !.pc = "loop", !.kind = "enrichment", !.intensity = i,
                                    !.rem = EnrichmentMoves(i), !.centre = Centre(cat_pos),
                                    !.ev = "start"]
    /\ UNCHANGED cat_pos
    /\ UNCHANGED notReact

\* One turn of the enrichment loop: the target around the centre, the tap, and
\* on every third turn the position read again.
enrichment_step ==
    /\ gen.pc = "loop"
    /\ gen.kind = "enrichment"
    /\ gen.rem > 0
    /\ \E dir \in Directions, distance \in EnrichmentDistances(gen.intensity) :
          LET o == Offset(dir, distance) IN
          gen' = [gen EXCEPT !.rem = @ - 1, !.i = (@ + 1) % 3, !.ev = "target",
                             !.from = gen.centre,
                             !.target = <<gen.centre[1] + o[1], gen.centre[2] + o[2]>>,
                             !.centre = IF gen.i = 0 /\ cat_pos # <<>>
                                        THEN Centre(cat_pos) ELSE @,
                             !.used = gen.age + 1,
                             !.age = IF gen.i = 0 /\ cat_pos # <<>> THEN 0 ELSE @ + 1]
    /\ UNCHANGED cat_pos
    /\ UNCHANGED notReact

\* The for loop is exhausted: the generator returns True.
generator_return ==
    /\ gen.pc = "loop"
    /\ gen.rem = 0
    /\ gen' = NoGen
    /\ UNCHANGED cat_pos
    /\ UNCHANGED notReact

ReactInit ==
    /\ cat_pos = <<>>
    /\ gen = NoGen

NextReact ==
    \/ detect_cat
    \/ teasing_start
    \/ teasing_step
    \/ enrichment_start
    \/ enrichment_step
    \/ generator_return

---------------------------------------------------------------------------
(* The generators' fallback (modules/vision/cat_patterns.py lines 43-47,    *)
(* 125-129 and 196-200) and execute_kitty_mode_pattern                      *)
(* (modules/patterns.py). The module-level random generator is a stream of  *)
(* draws in 0..15; an angle is taken to the nearest of eight directions, a  *)
(* uniform(a, b) to sixteen evenly spaced values. The hiding pattern's      *)
(* freeze loop runs on the wall clock: the time one turn takes beyond its   *)
(* 0.2 s sleep is an input of the environment (lat, in ms).                 *)

\* The random stream: the state after one draw.
NextRnd(s) == (5 * s + 3) % 16

\* random.uniform(a, b) and random.randint(a, b), from the draw s
Uniform(a, b, s) == a + TruncDiv(s * (b - a), 15)

\* random.uniform(0, 2 * math.pi) to the nearest direction: <<cos, sin>> * 10000
Angles == << <<10000, 0>>, <<7071, 7071>>, <<0, 10000>>, <<-7071, 7071>>,
             <<-10000, 0>>, <<-7071, -7071>>, <<0, -10000>>, <<7071, -7071>> >>

\* int(last_x + distance * math.cos(angle)), int(last_y + distance * math.sin(angle))
StepFrom(p, a, distance) ==
    <<TruncDiv(p[1] * 10000 + distance * Angles[(a % 8) + 1][1], 10000),
      TruncDiv(p[2] * 10000 + distance * Angles[(a % 8) + 1][2], 10000)>>

\* random.choice([...]) in execute_kitty_mode_pattern
KittyTypes == <<"prey", "stalking", "hiding", "fleeing">>

\* The seeds of the random stream and the latencies of one freeze-loop turn.
Seeds == {0, 5, 7, 14}

Latencies == {20, 150}

NoKitty == [pc |-> "done", type |-> "", intensity |-> 0, rng |-> 0, lat |-> 0,
            seqs |-> 0, inner |-> 0, main |-> 0, last |-> <<0, 0>>, taps |-> <<>>]

\* The head of a sequence of _execute_stalking_prey (slow_steps = randint(3, 5))
\* and of _execute_hiding_prey (freeze_time = uniform(0.3, 0.7); the loop taps
\* while time.time() - freeze_start < freeze_time, a turn taking 0.2 s + lat).
BeginSequence(k) ==
    IF k.seqs = 0 THEN [k EXCEPT !.pc = "done"]
    ELSE IF k.type = "stalking"
         THEN [k EXCEPT !.inner = Uniform(3, 5, k.rng), !.rng = NextRnd(k.rng)]
         ELSE LET freeze_time == Uniform(300, 700, k.rng)
              IN [k EXCEPT !.inner = (freeze_time + 200 + k.lat - 1) \div (200 + k.lat),
                           !.rng = NextRnd(k.rng)]

\* execute_kitty_mode_pattern(intensity) up to the first tap: the start point
\* from get_safe_coordinates (two draws), the choice of the movement (one draw)
\* and the head of the movement chosen.
execute_kitty_mode_pattern(intensity, rng, lat, zone) ==
    LET s2 == NextRnd(rng)
        s3 == NextRnd(s2)
        s4 == NextRnd(s3)
        start == <<Uniform(zone.min_x, zone.max_x, rng), Uniform(zone.min_y, zone.max_y, s2)>>
        type == KittyTypes[(s3 % 4) + 1]
        k == [pc |-> "tap", type |-> type, intensity |-> intensity, rng |-> s4,
              lat |-> lat, seqs |-> 0, inner |-> 0, main |-> 0, last |-> start,
              taps |-> <<>>]
    IN CASE type = "prey" -> [k EXCEPT !.seqs = PreyTaps(intensity)]
         [] type = "stalking" ->
                BeginSequence([k EXCEPT !.seqs = Max(3, (6 * intensity) \div 10)])
         [] type = "hiding" ->
                BeginSequence([k EXCEPT !.seqs = Max(4, (8 * intensity) \div 10)])
         [] OTHER -> [k EXCEPT !.seqs = FleeingTaps(intensity), !.main = s4 % 8,
                               !.rng = NextRnd(s4)]

\* One execute_tap of the movement in progress with the draws around it: the
\* angle, the distance and the sleep that follows (the jitter of the freeze
\* loop draws twice and sleeps a fixed 0.2 s; it does not move last_x, last_y).
KittyTap(k) ==
    LET s1 == k.rng
        s2 == NextRnd(s1)
        s3 == NextRnd(s2)
        i == k.intensity
        moved(p, n) == [k EXCEPT !.last = p, !.taps = Append(@, p), !.rng = n]
    IN CASE k.type = "prey" ->
                LET m == moved(StepFrom(k.last, s1, Uniform(10, 8 * i, s2)), NextRnd(s3))
                IN [m EXCEPT !.seqs = @ - 1, !.pc = IF k.seqs = 1 THEN "done" ELSE "tap"]
         [] k.type = "fleeing" ->
                LET variation == Uniform(-1, 1, s1)
                    distance == (Uniform(40, 100, s2) * i) \div 10
                    m == moved(StepFrom(k.last, k.main + 8 + variation, distance), NextRnd(s3))
                IN [m EXCEPT !.seqs = @ - 1, !.pc = IF k.seqs = 1 THEN "done" ELSE "tap"]
         [] k.type = "stalking" /\ k.inner > 0 ->
                LET m == moved(StepFrom(k.last, s1, Uniform(5, 30, s2)), NextRnd(s3))
                IN [m EXCEPT !.inner = @ - 1]
         [] k.type = "stalking" /\ k.inner = 0 ->
                LET distance == (Uniform(100, 200, s2) * i) \div 10
                    m == moved(StepFrom(k.last, s1, distance), NextRnd(s3))
                IN BeginSequence([m EXCEPT !.seqs = @ - 1])
         [] k.type = "hiding" /\ k.inner > 0 ->
                LET jitter == <<k.last[1] + Uniform(-2, 2, s1), k.last[2] + Uniform(-2, 2, s2)>>
                IN [k EXCEPT !.taps = Append(@, jitter), !.rng = s3, !.inner = @ - 1]
         [] OTHER ->
                LET distance == (Uniform(80, 180, s2) * i) \div 10
                    m == moved(StepFrom(k.last, s1, distance), NextRnd(s3))
                IN BeginSequence([m EXCEPT !.seqs = @ - 1])

\* The whole of a movement: every tap up to its return.
RECURSIVE KittyRun(_)
KittyRun(k) == IF k.pc = "done" THEN k ELSE KittyRun(KittyTap(k))

\* What a generator does with the stream before it falls back: draws nothing
\* (the variant draws once).
BeforeFallback_draws(rng) == NextRnd(rng)

BeforeFallback(rng) == rng

NoFb == [pc |-> "off", kind |-> "", intensity |-> 0, seed |-> 0, lat |-> 0,
         zone |-> DefaultSafeZone, k |-> NoKitty]

\* execute_cat_following_pattern, execute_cat_teasing_pattern and
\* execute_cat_enrichment_pattern up to their first tap: without a position they
\* return execute_kitty_mode_pattern(intensity); with one they run their own loop.
generator_call ==
    /\ fb.pc = "off"
    /\ \E kind \in ReactivePatterns, intensity \in Intensities, seed \in Seeds,
          lat \in Latencies :
           fb' = [pc |-> IF cat_pos = <<>> THEN "fallback" ELSE "reactive",
                  kind |-> kind, intensity |-> intensity, seed |-> seed, lat |-> lat,
                  zone |-> safe_zone,
                  k |-> IF cat_pos = <<>>
                        THEN execute_kitty_mode_pattern(intensity, BeforeFallback(seed),
                                                        lat, safe_zone)
                        ELSE NoKitty]
    /\ UNCHANGED notFb

\* One tap of the fallback in progress.
fallback_tap ==
    /\ fb.pc = "fallback"
    /\ fb.k.pc = "tap"
    /\ fb' = [fb EXCEPT !.k = KittyTap(fb.k)]
    /\ UNCHANGED notFb

\* The generator returns: the fallback's movement is over, or the generator's
\* own loop over the subject is (that loop is the reactive specification's).
fallback_return ==
    /\ \/ fb.pc = "fallback" /\ fb.k.pc = "done"
       \/ fb.pc = "reactive"
    /\ fb' = NoFb
    /\ UNCHANGED notFb

FbInit == fb = NoFb

NextFallback ==
    \/ detect_cat
    \/ generator_call
    \/ fallback_tap
    \/ fallback_return

---------------------------------------------------------------------------
(* The tracker (modules/vision/cat_detector.py): the _detection_loop thread *)
(* calling detect_cat, and get_cat_movement_vector reading the history from *)
(* the scheduler thread. cat_pos is CatDetector.last_detection. Times are   *)
(* in ms and saturate at detection_interval.                                *)

detection_interval == 500

max_positions == 10

\* time.sleep(0.1) of _detection_loop
DetectSleepMs == 100

\* The boxes the detector returns: the subject follows one of two paths, a box
\* per capture, around and around; a run has up to MaxLog captures with a box.
Paths == { << <<5, 5, 10, 10>>, <<8, 9, 10, 10>>, <<20, 9, 10, 10>>, <<8, 9, 11, 11>> >>,
           << <<8, 9, 10, 10>>, <<5, 5, 10, 10>>, <<5, 5, 10, 10>>, <<20, 30, 40, 40>> >> }

MaxLog == 11

\* detect_cat's except clause catches what the detector raises.
Caught_never == FALSE

Caught == TRUE

\* if len(self.cat_positions) > self.max_positions: self.cat_positions.pop(0)
Trim_newest(h) == IF Len(h) > max_positions THEN SubSeq(h, 1, Len(h) - 1) ELSE h

Trim(h) == IF Len(h) > max_positions THEN Tail(h) ELSE h

\* dx = center2[0] - center1[0], dy = center2[1] - center1[1]
MovementVector_unit(center1, center2) ==
    <<Along(center2[1] - center1[1], center2[1] - center1[1], center2[2] - center1[2], 1),
      Along(center2[2] - center1[2], center2[1] - center1[1], center2[2] - center1[2], 1)>>

MovementVector(center1, center2) == <<center2[1] - center1[1], center2[2] - center1[2]>>

\* if current_time - self.last_detection_time < self.detection_interval
Throttled(since) == since < detection_interval

\* The vector of the last two entries of a history of two or more.
LastTwoVector(h) == MovementVector(Centre(h[Len(h) - 1]), Centre(h[Len(h)]))

\* at_call, at_read: the vector of the history's last two entries when the call
\* tested its length and when it read the last entry (observers).
NoMv == [pc |-> "idle", n |-> 0, first |-> <<>>, second |-> <<>>, at_call |-> <<>>,
         at_read |-> <<>>, result |-> <<>>]

\* The observer's record of a detect_cat return.
Returned(outcome, value) ==
    [obs EXCEPT !.outcome = outcome, !.value = value,
                !.positions = cat_positions, !.last = cat_pos]

\* The observer's record of a detector invocation (detectMultiScale).
Invoked(o) == [o EXCEPT !.close = @ \/ o.gap < detection_interval, !.gap = 0]

\* start_detection: a no-op while detection is active, else the thread starts.
start_detection ==
    /\ ~det.active
    /\ det.pc = "idle"
    /\ det' = StartDetection(det)
    /\ UNCHANGED <<cat_positions, obs, mv, cat_pos>>
    /\ UNCHANGED notTrk

\* stop_detection: the flag is cleared; the thread leaves at its next loop head.
stop_detection ==
    /\ det.active
    /\ det' = StopDetection(det)
    /\ UNCHANGED <<cat_positions, obs, mv, cat_pos>>
    /\ UNCHANGED notTrk

\* _detection_loop: while self.detection_active
detection_loop_head ==
    /\ det.pc = "head"
    /\ det' = [det EXCEPT !.pc = IF det.active THEN "call" ELSE "idle"]
    /\ UNCHANGED <<cat_positions, obs, mv, cat_pos>>
    /\ UNCHANGED notTrk

\* detect_cat up to its return or to the append of a detection: the throttle,
\* the capture, the model, the detector. last_detection_time is set only when
\* the detector returned.
detect_cat_call ==
    /\ det.pc = "call"
    /\ IF Throttled(det.since)
       THEN /\ det' = [det EXCEPT !.pc = "sleep"]
            /\ obs' = Returned("cached", cat_pos)
            /\ UNCHANGED cat_positions
       ELSE \/ \* get_current_frame() is None
               /\ det' = [det EXCEPT !.pc = "sleep"]
               /\ obs' = Returned("no frame", <<>>)
               /\ UNCHANGED cat_positions
            \/ \* _load_model() fails
               /\ ~det.model
               /\ det' = [det EXCEPT !.pc = "sleep"]
               /\ obs' = Returned("no model", <<>>)
               /\ UNCHANGED cat_positions
            \/ \* cvtColor or detectMultiScale raises
               /\ det' = [det EXCEPT !.model = TRUE,
                                     !.pc = IF Caught THEN "sleep" ELSE "dead"]
               /\ obs' = Invoked(Returned("raised", <<>>))
               /\ UNCHANGED cat_positions
            \/ \* no detections
               /\ det' = [det EXCEPT !.model = TRUE, !.since = 0, !.pc = "sleep"]
               /\ obs' = Invoked(Returned("none", <<>>))
               /\ UNCHANGED cat_positions
            \/ \* the largest detection is appended
               /\ Len(obs.log) < MaxLog
               /\ \E path \in IF obs.path = <<>> THEN Paths ELSE {obs.path} :
                      LET cat_rect == path[(Len(obs.log) % Len(path)) + 1]
                      IN /\ det' = [det EXCEPT !.model = TRUE, !.since = 0,
                                               !.pc = "appended", !.cat_rect = cat_rect]
                         /\ cat_positions' = Append(cat_positions, cat_rect)
                         /\ obs' = [Invoked(obs) EXCEPT !.log = Append(@, cat_rect),
                                                        !.path = path,
                                                        !.outcome = "appending"]
    /\ UNCHANGED <<mv, cat_pos>>
    /\ UNCHANGED notTrk

\* self.last_detection = cat_rect
LastDetection(before, cat_rect) == cat_rect

\* detect_cat after the append: the history is trimmed, last_detection is set
\* and the box is returned.
detect_cat_store ==
    /\ det.pc = "appended"
    /\ cat_positions' = Trim(cat_positions)
    /\ cat_pos' = LastDetection(cat_pos, det.cat_rect)
    /\ det' = [det EXCEPT !.pc = "sleep"]
    /\ obs' = [obs EXCEPT !.outcome = "box", !.value = det.cat_rect,
                          !.positions = cat_positions', !.last = cat_pos']
    /\ UNCHANGED mv
    /\ UNCHANGED notTrk

\* time.sleep(0.1) of _detection_loop
detection_sleep ==
    /\ det.pc = "sleep"
    /\ det' = [det EXCEPT !.pc = "head",
                          !.since = Min(detection_interval, @ + DetectSleepMs)]
    /\ obs' = [obs EXCEPT !.gap = Min(detection_interval, @ + DetectSleepMs)]
    /\ UNCHANGED <<cat_positions, mv, cat_pos>>
    /\ UNCHANGED notTrk

\* get_cat_movement_vector: the length test and the read of cat_positions[-2]
vector_call ==
    /\ mv.pc = "idle"
    /\ mv' = IF Len(cat_positions) < 2
             THEN [NoMv EXCEPT !.pc = "done", !.n = Len(cat_positions)]
             ELSE [NoMv EXCEPT !.pc = "read", !.n = Len(cat_positions),
                               !.first = cat_positions[Len(cat_positions) - 1],
                               !.at_call = LastTwoVector(cat_positions)]
    /\ UNCHANGED <<cat_positions, det, obs, cat_pos>>
    /\ UNCHANGED notTrk

\* get_cat_movement_vector: the read of cat_positions[-1], the centres, the vector
vector_read ==
    /\ mv.pc = "read"
    /\ LET second == cat_positions[Len(cat_positions)]
       IN mv' = [mv EXCEPT !.pc = "done", !.second = second,
                           !.at_read = LastTwoVector(cat_positions),
                           !.result = MovementVector(Centre(mv.first), Centre(second))]
    /\ UNCHANGED <<cat_positions, det, obs, cat_pos>>
    /\ UNCHANGED notTrk

vector_return ==
    /\ mv.pc = "done"
    /\ mv' = NoMv
    /\ UNCHANGED <<cat_positions, det, obs, cat_pos>>
    /\ UNCHANGED notTrk

\* ---- execute_cat_following_pattern (modules/vision/cat_patterns.py), which ----
\* ---- reads the position and the movement vector of the tracker           ----

\* CatReactivePatterns.__init__: lead_distance, in pixels
lead_distance == 150

\* max(6, int(12 * intensity))
FollowingMoves(i) == Max(6, (12 * i) \div 10)

\* The pair of random.randint(-100, 100) draws: the ends
NearCat == {<<-100, -100>>, <<100, 100>>}

\* The pair of random.randint(-int(variation), int(variation)) draws, with
\* variation = 50 * intensity: the largest draw on both axes
FollowingDrifts(i) == LET v == (50 * i) \div 10 IN {<<v, v>>}

\* get_cat_movement_vector on a history read in one piece: None (here <<>>)
\* below two entries.
get_cat_movement_vector(h) == IF Len(h) < 2 THEN <<>> ELSE LastTwoVector(h)

\* The lead points the generator may derive from a centre and a movement: none
\* when there is a movement of magnitude 0 or no movement at a re-read.
LeadPoints(c, movement, first) ==
    IF movement # <<>> /\ movement # <<0, 0>>
    THEN {<<c[1] + Along(movement[1], movement[1], movement[2], lead_distance),
            c[2] + Along(movement[2], movement[1], movement[2], lead_distance)>>}
    ELSE IF first THEN {<<c[1] + o[1], c[2] + o[2]>> : o \in NearCat} ELSE {}

\* CatDetector.detect_cat stores a detection: last_detection and the history,
\* of which the last two entries are kept, all get_cat_movement_vector reads.
detect_cat_tracked ==
    /\ \E box \in CatBoxes :
          /\ cat_pos' = box
          /\ cat_positions' = IF Len(cat_positions) < 2 THEN Append(cat_positions, box)
                               ELSE <<cat_positions[2], box>>
    /\ UNCHANGED <<det, obs, mv>>
    /\ UNCHANGED notTrk

\* execute_cat_following_pattern up to the loop: no position, the fallback; else
\* the lead point ahead of the subject, or near it when it is at rest.
following_start ==
    /\ gen.pc = "off"
    /\ \E i \in Intensities :
          IF cat_pos = <<>>
          THEN gen' = [NoGen EXCEPT !.kind = "following", !.intensity = i, !.ev = "fallback"]
          ELSE LET c == Centre(cat_pos) IN
               \E lead \in LeadPoints(c, get_cat_movement_vector(cat_positions), TRUE) :
                  gen' = [NoGen EXCEPT !.pc = "loop", !.kind = "following", !.intensity = i,
                                       !.rem = FollowingMoves(i), !.centre = c, !.from = c,
                                       !.lead = lead, !.ev = "start"]
    /\ UNCHANGED <<cat_pos, trkVars>>
    /\ UNCHANGED <<schedVars, zoneVars, timeVars, fb, cfg, libVars>>

\* One turn of the following loop: the tap around the lead point and, on every
\* third turn, the position and the movement read again.
following_step ==
    /\ gen.pc = "loop"
    /\ gen.kind = "following"
    /\ gen.rem > 0
    /\ \E v \in FollowingDrifts(gen.intensity) :
          LET tapped == [gen EXCEPT !.rem = @ - 1, !.i = (@ + 1) % 3, !.ev = "tap",
                                    !.from = gen.centre,
                                    !.target = <<gen.lead[1] + v[1], gen.lead[2] + v[2]>>,
                                    !.used = gen.age + 1, !.age = @ + 1]
          IN IF gen.i = 0 /\ cat_pos # <<>>
             THEN LET c == Centre(cat_pos)
                      leads == LeadPoints(c, get_cat_movement_vector(cat_positions), FALSE)
                  IN IF leads = {}
                     THEN gen' = [tapped EXCEPT !.ev = "reread", !.centre = c]
                     ELSE \E lead \in leads :
                            gen' = [tapped EXCEPT !.ev = "reread", !.centre = c,
                                                  !.lead = lead, !.age = 0]
             ELSE gen' = tapped
    /\ UNCHANGED <<cat_pos, trkVars>>
    /\ UNCHANGED <<schedVars, zoneVars, timeVars, fb, cfg, libVars>>

TrkInit ==
    /\ cat_positions = <<>>
    /\ det = [active |-> FALSE, pc |-> "idle", since |-> detection_interval,
              model |-> FALSE, cat_rect |-> <<>>]
    /\ obs = [log |-> <<>>, path |-> <<>>, gap |-> detection_interval, close |-> FALSE,
              outcome |-> "none yet", value |-> <<>>, positions |-> <<>>, last |-> <<>>]
    /\ mv = NoMv

NextTracker ==
    \/ start_detection
    \/ stop_detection
    \/ detection_loop_head
    \/ detect_cat_call
    \/ detect_cat_store
    \/ detection_sleep
    \/ vector_call
    \/ vector_read
    \/ vector_return

---------------------------------------------------------------------------
(* The configuration boundary: ConfigManager.load_settings at construction,  *)
(* PetCubeHelper.update_safe_zone on what the fields hold, launch_app.       *)

\* The observer's reading of four values, in the words of the validation's
\* contract: a bound outside [0, 1], min >= max on an axis, or neither.
Kind(min_x, max_x, min_y, max_y) ==
    IF \E v \in {min_x, max_x, min_y, max_y} : v < 0 \/ v > 10000 THEN "out of range"
    ELSE IF min_x >= max_x \/ min_y >= max_y THEN "inverted"
    ELSE "valid"

NoCfg == [op |-> "none", kind |-> "valid", ok |-> FALSE,
          pct |-> DefaultSafeZonePct, zone |-> DefaultSafeZone]

\* ConfigManager.load_settings, called by ConfigManager.__init__: a saved
\* safe_zone_pct replaces the default as it is.
load_settings ==
    /\ cfg.op = "none"
    /\ \E saved \in SavedSettings \cup {safe_zone_pct} : safe_zone_pct' = saved
    /\ cfg' = [cfg EXCEPT !.op = "load_settings"]
    /\ UNCHANGED <<safe_zone, screen, call, held>>
    /\ UNCHANGED <<schedVars, timeVars, reactVars, fb, trkVars, libVars>>

\* PetCubeHelper.update_safe_zone, with what it was given and what it found.
update_safe_zone_fields ==
    /\ \E min_x \in FieldChoices, max_x \in FieldChoices,
          min_y \in FieldChoices, max_y \in FieldChoices :
          /\ UpdateSafeZone(min_x, max_x, min_y, max_y)
          /\ cfg' = [op |-> "update_safe_zone", kind |-> Kind(min_x, max_x, min_y, max_y),
                     ok |-> ValidSafeZonePct(min_x, max_x, min_y, max_y),
                     pct |-> safe_zone_pct, zone |-> safe_zone]
    /\ UNCHANGED <<schedVars, timeVars, reactVars, fb, trkVars, libVars>>

CfgInit == cfg = NoCfg

NextConfig ==
    \/ load_settings
    \/ launch_app
    \/ update_safe_zone_fields

---------------------------------------------------------------------------
(* The pattern library (patterns/*.py): _setup_commands of each pattern,    *)
(* one move_to at a time. Relative coordinates are kept in 1/1000; a        *)
(* uniform(a, b) is drawn from its two ends (and its middle for a start     *)
(* point), an angle from the four axis directions (eight for the fleeing    *)
(* pattern's main direction).                                               *)

LibraryPatterns == {"Random", "Circular", "Laser Pointer", "Fixed Points",
                    "prey", "stalking", "hiding", "fleeing"}

\* x = max(0.1, min(0.9, x))
KeepInBounds(v) == Clamp(v, 100, 900)

\* The jitter of _hiding_prey: x + random.uniform(-0.01, 0.01), not clamped.
Jitter(v) == {v - 10, v, v + 10}

\* center + radius * cos(2 pi i / 12), center + radius * sin(2 pi i / 12)
CirclePoint(i) ==
    LET c == <<10000, 8660, 5000, 0, -5000, -8660, -10000, -8660, -5000, 0, 5000, 8660>>
    IN <<500 + TruncDiv(400 * c[(i % 12) + 1], 10000),
         500 + TruncDiv(400 * c[((i + 9) % 12) + 1], 10000)>>

\* FixedPointsPattern: points, then the centre
FixedPoints == << <<200, 300>>, <<500, 200>>, <<800, 300>>, <<800, 700>>,
                  <<500, 800>>, <<200, 700>>, <<500, 500>> >>

\* x += distance * math.cos(angle); y += distance * math.sin(angle)
Advance(p, a, distance) ==
    <<p[1] + TruncDiv(distance * Angles[(a % 8) + 1][1], 10000),
      p[2] + TruncDiv(distance * Angles[(a % 8) + 1][2], 10000)>>

InBounds(p) == <<KeepInBounds(p[1]), KeepInBounds(p[2])>>

NoLib == [pc |-> "off", name |-> "", pos |-> <<0, 0>>, rem |-> 0, inner |-> 0,
          main |-> 0, move |-> <<>>]

\* self.move_to(x, y, relative=True)
move_to(l, p) == [l EXCEPT !.move = [x |-> p[1], y |-> p[2], relative |-> TRUE]]

\* The fleeing pattern's angle is its main direction (the variation of half a
\* radian is left out); its bounce is pi - angle on x, -angle on y.
\* The moves that follow the first: rem is the number of loop turns left,
\* inner the number of slow steps or jitters left in the turn.
NextMoves(l) ==
    LET turn(m) == [m EXCEPT !.rem = @ - 1, !.pc = IF l.rem = 1 THEN "built" ELSE "build"]
        to(p) == [move_to(l, p) EXCEPT !.pos = p]
    IN CASE l.name = "Random" ->
               {turn(to(<<x, y>>)) : x \in {100, 500, 900}, y \in {100, 900}}
         [] l.name = "Circular" ->
               {turn(to(IF l.rem = 1 THEN <<500 + 400, 500>> ELSE CirclePoint(13 - l.rem)))}
         [] l.name = "Fixed Points" ->
               {turn(to(FixedPoints[8 - l.rem]))}
         [] l.name = "Laser Pointer" ->
               {turn(to(<<x, y>>)) : x \in {100, 900}, y \in {100, 900}}
               \cup {turn(to(InBounds(Advance(l.pos, a, d)))) : a \in {0, 2, 4, 6}, d \in {100, 300}}
         [] l.name = "prey" ->
               {turn(to(InBounds(Advance(l.pos, a, d)))) : a \in {0, 2, 4, 6}, d \in {20, 80}}
         [] l.name = "stalking" ->
               IF l.inner > 0
               THEN {[to(InBounds(Advance(l.pos, a, d))) EXCEPT !.inner = @ - 1] :
                         a \in {0, 2, 4, 6}, d \in {10, 30}}
               ELSE {[turn(to(InBounds(Advance(l.pos, a, d)))) EXCEPT !.inner = 4] :
                         a \in {0, 2, 4, 6}, d \in {200, 400}}
         [] l.name = "hiding" ->
               IF l.inner > 0
               THEN {[move_to(l, <<jx, jy>>) EXCEPT !.inner = @ - 1] :
                         jx \in Jitter(l.pos[1]), jy \in Jitter(l.pos[2])}
               ELSE {[turn(to(InBounds(Advance(l.pos, a, d)))) EXCEPT !.inner = 3] :
                         a \in {0, 2, 4, 6}, d \in {150, 350}}
         [] OTHER ->
               { LET q == Advance(l.pos, l.main, d)
                     bx == q[1] < 100 \/ q[1] > 900
                     by == q[2] < 100 \/ q[2] > 900
                     m1 == IF bx THEN (12 - l.main) % 8 ELSE l.main
                     m2 == IF by THEN (8 - m1) % 8 ELSE m1
                 IN [turn(to(<<IF bx THEN KeepInBounds(q[1]) ELSE q[1],
                               IF by THEN KeepInBounds(q[2]) ELSE q[2]>>)) EXCEPT !.main = m2] :
                   d \in {80, 150} }

\* A pattern object is created: _setup_commands up to its first move_to.
setup_commands ==
    /\ lib.pc = "off"
    /\ \E name \in LibraryPatterns :
          CASE name \in {"Random", "Circular", "Fixed Points"} ->
                  \E first \in NextMoves([NoLib EXCEPT !.name = name,
                         !.rem = CASE name = "Random" -> 8 [] name = "Circular" -> 13
                                   [] OTHER -> 7]) :
                      lib' = first
            [] name = "prey" ->
                  \E x \in {300, 700}, y \in {300, 700} :
                      lib' = move_to([NoLib EXCEPT !.pc = "build", !.name = name,
                                                   !.pos = <<x, y>>, !.rem = 15], <<x, y>>)
            [] OTHER ->
                  \E x \in {200, 500, 800}, y \in {200, 800}, main \in 0..7 :
                      lib' = move_to([NoLib EXCEPT !.pc = "build", !.name = name,
                                 !.pos = <<x, y>>,
                                 !.main = IF name = "fleeing" THEN main ELSE 0,
                                 !.inner = CASE name = "stalking" -> 4 [] name = "hiding" -> 3
                                             [] OTHER -> 0,
                                 !.rem = CASE name = "Laser Pointer" -> 10
                                           [] name = "stalking" -> 3 [] name = "hiding" -> 5
                                           [] OTHER -> 8], <<x, y>>)
    /\ UNCHANGED <<mvx, saf, extVars>>
    /\ UNCHANGED notLib

\* The next move_to of _setup_commands.
setup_next_move ==
    /\ lib.pc = "build"
    /\ lib' \in NextMoves(lib)
    /\ UNCHANGED <<mvx, saf, extVars>>
    /\ UNCHANGED notLib

\* The pattern object is dropped after its execution.
pattern_done ==
    /\ lib.pc = "built"
    /\ lib' = NoLib
    /\ UNCHANGED <<mvx, saf, extVars>>
    /\ UNCHANGED notLib

LibInit == lib = NoLib

NextLibrary ==
    \/ setup_commands
    \/ setup_next_move
    \/ pattern_done

---------------------------------------------------------------------------
(* BasePattern._execute_move (patterns/base_pattern.py) and the clamp of    *)
(* PatternExecutor.execute_tap, for one Move command under the zone the     *)
(* dispatcher holds. A relative coordinate is in 1/1000, the intensity in   *)
(* tenths.                                                                  *)

\* Move commands: relative ones on and inside the ends of [0, 1], absolute
\* ones inside, left of and right of every zone.
MoveCommands ==
    {[x |-> cx, y |-> cy, relative |-> TRUE] : cx \in {0, 100, 500, 1000}, cy \in {0, 900, 1000}}
    \cup {[x |-> px, y |-> py, relative |-> FALSE] : px \in {-5, 540, 2000}, py \in {0, 1000, 2500}}

\* int(min + c * (max - min) * intensity)
ResolveAxis(lo, hi, c, i) == TruncDiv(lo * 10000 + c * (hi - lo) * i, 10000)

\* The point _execute_move hands to execute_tap.
ResolveMove(command, i, z) ==
    IF command.relative
    THEN <<ResolveAxis(z.min_x, z.max_x, command.x, i),
           ResolveAxis(z.min_y, z.max_y, command.y, i)>>
    ELSE <<command.x, command.y>>

\* A clamp that folds a coordinate back over the bound it passed.
ConstrainToZone_fold(p, z, enforce) ==
    LET fold(v, lo, hi) == IF v > hi THEN 2 * hi - v ELSE IF v < lo THEN 2 * lo - v ELSE v
    IN IF enforce THEN <<fold(p[1], z.min_x, z.max_x), fold(p[2], z.min_y, z.max_y)>> ELSE p

\* execute_tap: the point that goes to the device.
ConstrainToZone(p, z, enforce) ==
    IF enforce
    THEN <<Clamp(p[1], z.min_x, z.max_x), Clamp(p[2], z.min_y, z.max_y)>>
    ELSE p

NoMvx == [pc |-> "idle", command |-> <<>>, intensity |-> 0, zone |-> <<>>,
          enforce |-> FALSE, requested |-> <<>>, sent |-> <<>>,
          enforce_again |-> FALSE, again |-> <<>>]

\* _execute_move(command, intensity), the tap it dispatches included.
execute_move ==
    /\ mvx.pc = "idle"
    /\ screen # <<>>
    /\ \E command \in MoveCommands, i \in Intensities :
          LET requested == ResolveMove(command, i, safe_zone) IN
          mvx' = [NoMvx EXCEPT !.pc = "tapped", !.command = command, !.intensity = i,
                      !.zone = safe_zone, !.enforce = enforce_safe_zone,
                      !.requested = requested,
                      !.sent = ConstrainToZone(requested, safe_zone, enforce_safe_zone)]
    /\ UNCHANGED <<lib, saf, extVars>>
    /\ UNCHANGED notLib

\* execute_tap on the point the device was sent, the zone being the same.
dispatch_again ==
    /\ mvx.pc = "tapped"
    /\ safe_zone = mvx.zone
    /\ mvx' = [mvx EXCEPT !.pc = "again", !.enforce_again = enforce_safe_zone,
                          !.again = ConstrainToZone(mvx.sent, safe_zone, enforce_safe_zone)]
    /\ UNCHANGED <<lib, saf, extVars>>
    /\ UNCHANGED notLib

\* The command is done.
move_return ==
    /\ mvx.pc \in {"tapped", "again"}
    /\ mvx' = NoMvx
    /\ UNCHANGED <<lib, saf, extVars>>
    /\ UNCHANGED notLib

MvxInit == mvx = NoMvx

NextMove ==
    \/ load_settings
    \/ launch_app
    \/ enable_safe_zone
    \/ execute_move
    \/ dispatch_again
    \/ move_return

---------------------------------------------------------------------------
(* PatternExecutor.make_safety_movement (modules/patterns.py) with its log *)
(* line, get_safe_coordinates and the tap, under the zones the application *)
(* can hold. safety_verbose is an attribute of the dispatcher that a       *)
(* client may set.                                                          *)

\* random.randint(lo, hi), drawn from the ends of the range; randint raises
\* ValueError on an empty range.
randint(lo, hi) == IF lo > hi THEN {} ELSE {lo, hi}

\* if not self.pattern_active or self.safety_verbose: self.log(...)
SafetyLogged(active, verbose) == ~active \/ verbose

\* x and y are the draws of get_safe_coordinates, zones the zones the
\* dispatcher held during the call, enforce the flag execute_tap read.
NoSaf == [pc |-> "idle", verbose |-> FALSE, active |-> FALSE, logged |-> FALSE,
          taps |-> <<>>, raised |-> FALSE, x |-> 0, y |-> 0, zones |-> {},
          enforce |-> FALSE]

\* self.safety_verbose = value
set_safety_verbose ==
    /\ saf.pc = "idle"
    /\ \E value \in BOOLEAN : saf' = [saf EXCEPT !.verbose = value]
    /\ UNCHANGED <<lib, mvx, extVars>>
    /\ UNCHANGED notLib

\* PatternExecutor.start_pattern and PatternExecutor.stop_pattern
mark_pattern ==
    /\ saf.pc = "idle"
    /\ \E active \in BOOLEAN : pattern_active' = active
    /\ UNCHANGED <<stop_event, buttons, cat_detection_var, cat_detector, loop,
                   time_unit_ms, enforce_safe_zone, taps_since_stop>>
    /\ UNCHANGED notSched

\* make_safety_movement up to the first line of get_safe_coordinates: the
\* log line and x = random.randint(min_x, max_x). Patterns and their waits
\* run only once launch_app has enabled the Start button.
make_safety_movement_logged ==
    /\ saf.pc = "idle"
    /\ screen # <<>>
    /\ LET xs == randint(safe_zone.min_x, safe_zone.max_x)
           logged == SafetyLogged(pattern_active, saf.verbose)
       IN IF xs = {}
          THEN saf' = [saf EXCEPT !.pc = "done", !.active = pattern_active,
                                  !.logged = logged, !.taps = <<>>, !.raised = TRUE]
          ELSE \E x \in xs :
                 saf' = [saf EXCEPT !.pc = "x", !.active = pattern_active,
                                    !.logged = logged, !.x = x, !.zones = {safe_zone}]
    /\ UNCHANGED <<lib, mvx, extVars>>
    /\ UNCHANGED notLib

\* y = random.randint(min_y, max_y), the return of get_safe_coordinates and
\* execute_tap(x, y).
get_safe_coordinates_y ==
    /\ saf.pc = "x"
    /\ LET ys == randint(safe_zone.min_y, safe_zone.max_y)
       IN IF ys = {}
          THEN saf' = [saf EXCEPT !.pc = "done", !.taps = <<>>, !.raised = TRUE,
                                  !.zones = @ \cup {safe_zone}]
          ELSE \E y \in ys :
                 saf' = [saf EXCEPT !.pc = "done", !.y = y, !.raised = FALSE,
                                    !.zones = @ \cup {safe_zone},
                                    !.enforce = enforce_safe_zone,
                                    !.taps = <<ConstrainToZone(<<saf.x, y>>, safe_zone,
                                                               enforce_safe_zone)>>]
    /\ UNCHANGED <<lib, mvx, extVars>>
    /\ UNCHANGED notLib

\* The caller goes on.
safety_return ==
    /\ saf.pc = "done"
    /\ saf' = [NoSaf EXCEPT !.verbose = saf.verbose]
    /\ UNCHANGED <<lib, mvx, extVars>>
    /\ UNCHANGED notLib

SafInit == saf = NoSaf

NextSafety ==
    \/ load_settings
    \/ launch_app
    \/ update_safe_zone
    \/ enable_safe_zone
    \/ set_safety_verbose
    \/ mark_pattern
    \/ make_safety_movement_logged
    \/ get_safe_coordinates_y
    \/ safety_return

---------------------------------------------------------------------------
(* pattern_loop, the interval-based scheduler (petcube_helper_modular.py;    *)
(* petcube_helper_gui.py has the same loop in execute_touch_pattern). Times  *)
(* are in ms: idle since the last movement, waited since wait_start.         *)

\* The intervals the Interval field may hold, in seconds.
IntervalSeconds == {5, 60}

\* The time since the last tap when execute_pattern returns: the sleep after
\* the last tap, random.uniform(0.2, delay) with delay up to 1.35 s.
IdleAfterPattern == {200, 1400}

\* max(5, int(interval * (1.1 - intensity))), in ms
adjusted_interval(interval, i) == 1000 * Max(5, TruncDiv(interval * (11 - i), 10))

NoIv == [pc |-> "off", stop |-> FALSE, interval |-> 0, intensity |-> 0,
         adjusted |-> 0, waited |-> 0, idle |-> 0, runs |-> 0]

\* start_pattern: the stop event is cleared, the thread started; pattern_loop
\* calls update_movement_timer before its loop.
interval_start ==
    /\ iv.pc = "off"
    /\ \E interval \in IntervalSeconds, i \in Intensities :
          iv' = [NoIv EXCEPT !.pc = "head", !.interval = interval, !.intensity = i]
    /\ UNCHANGED <<thr, dth, xp, rp>>
    /\ UNCHANGED notExt

\* stop_pattern: self.stop_event.set()
interval_stop ==
    /\ iv.pc \notin {"off", "exited"}
    /\ ~iv.stop
    /\ iv' = [iv EXCEPT !.stop = TRUE]
    /\ UNCHANGED <<thr, dth, xp, rp>>
    /\ UNCHANGED notExt

\* while not self.stop_event.is_set()
interval_head ==
    /\ iv.pc = "head"
    /\ iv' = [iv EXCEPT !.pc = IF iv.stop THEN "exited" ELSE "exec"]
    /\ UNCHANGED <<thr, dth, xp, rp>>
    /\ UNCHANGED notExt

\* execute_pattern, adjusted_interval and wait_start = time.time()
interval_execute ==
    /\ iv.pc = "exec"
    /\ \E idle \in IdleAfterPattern :
          iv' = [iv EXCEPT !.pc = "wait", !.idle = idle, !.waited = 0,
                           !.adjusted = adjusted_interval(iv.interval, iv.intensity),
                           !.runs = Min(2, @ + 1)]
    /\ UNCHANGED <<thr, dth, xp, rp>>
    /\ UNCHANGED notExt

\* while (time.time() - wait_start) < adjusted_interval, and the break on the
\* stop event
interval_wait_head ==
    /\ iv.pc = "wait"
    /\ iv' = [iv EXCEPT !.pc = IF iv.waited < iv.adjusted /\ ~iv.stop THEN "body" ELSE "head"]
    /\ UNCHANGED <<thr, dth, xp, rp>>
    /\ UNCHANGED notExt

\* The body of the wait: check_movement_safety, and when it is due
\* make_safety_movement and wait_start = time.time(); then time.sleep(0.2).
interval_wait_body ==
    /\ iv.pc = "body"
    /\ iv' = [iv EXCEPT !.pc = "wait",
                        !.idle = (IF SafetyDue(iv.idle)
                                  THEN update_movement_timer(TRUE, iv.idle) ELSE iv.idle) + Quantum,
                        !.waited = (IF SafetyDue(iv.idle) THEN 0 ELSE iv.waited) + Quantum]
    /\ UNCHANGED <<thr, dth, xp, rp>>
    /\ UNCHANGED notExt

\* The thread has ended.
interval_exit ==
    /\ iv.pc = "exited"
    /\ iv' = NoIv
    /\ UNCHANGED <<thr, dth, xp, rp>>
    /\ UNCHANGED notExt

IntervalLoop == interval_head \/ interval_execute \/ interval_wait_head \/ interval_wait_body

NextInterval ==
    \/ interval_start
    \/ interval_stop
    \/ interval_head
    \/ interval_execute
    \/ interval_wait_head
    \/ interval_wait_body
    \/ interval_exit

---------------------------------------------------------------------------
(* The loop threads of start_pattern (petcubehelper.py; the modular variant  *)
(* starts its thread the same way). The stop event and the two buttons are   *)
(* shared, each thread has its own position in continuous_pattern_loop.      *)

\* The threads the model lets exist at once.
MaxThreads == 2

\* The taps of one pattern execution.
ExecutionTaps == {1, 2, 3}

NoThr == [stop |-> FALSE, running |-> FALSE, threads |-> <<>>, taps |-> 0]

Without(q, k) == SubSeq(q, 1, k - 1) \o SubSeq(q, k + 1, Len(q))

\* The threads that have not left their loop.
LiveThreads(t) == {k \in DOMAIN t.threads : t.threads[k].pc # "done"}

\* start_pattern, the Start button enabled: stop_event.clear(), the buttons
\* swapped, threading.Thread(...).start(). No thread started before is
\* looked at.
thread_start_pattern ==
    /\ ~thr.running
    /\ Len(thr.threads) < MaxThreads
    /\ thr' = [thr EXCEPT !.stop = FALSE, !.running = TRUE,
                          !.threads = Append(@, [pc |-> "head", left |-> 0])]
    /\ UNCHANGED <<iv, dth, xp, rp>>
    /\ UNCHANGED notExt

\* stop_pattern, the Stop button enabled: stop_event.set(), the buttons
\* swapped; it returns without waiting for the thread.
thread_stop_pattern ==
    /\ thr.running
    /\ thr' = [thr EXCEPT !.stop = TRUE, !.running = FALSE]
    /\ UNCHANGED <<iv, dth, xp, rp>>
    /\ UNCHANGED notExt

\* while not self.stop_event.is_set(): ... execute_pattern begins
thread_head(k) ==
    /\ thr.threads[k].pc = "head"
    /\ \E n \in ExecutionTaps :
          thr' = [thr EXCEPT !.threads[k] =
                     IF thr.stop THEN [pc |-> "done", left |-> 0]
                     ELSE [pc |-> "exec", left |-> n]]
    /\ UNCHANGED <<iv, dth, xp, rp>>
    /\ UNCHANGED notExt

\* One tap of the pattern under execution.
thread_tap(k) ==
    /\ thr.threads[k].pc = "exec"
    /\ thr.threads[k].left > 0
    /\ thr' = [thr EXCEPT !.threads[k].left = @ - 1,
                          !.taps = IF Cardinality(LiveThreads(thr)) > 1 THEN 1 ELSE 0]
    /\ UNCHANGED <<iv, dth, xp, rp>>
    /\ UNCHANGED notExt

\* After the execution: if not self.stop_event.is_set(): time.sleep(0.1);
\* then back to the head of the loop either way.
thread_gap(k) ==
    /\ thr.threads[k].pc = "exec"
    /\ thr.threads[k].left = 0
    /\ thr' = [thr EXCEPT !.threads[k].pc = "head"]
    /\ UNCHANGED <<iv, dth, xp, rp>>
    /\ UNCHANGED notExt

\* The thread function has returned.
thread_end(k) ==
    /\ thr.threads[k].pc = "done"
    /\ thr' = [thr EXCEPT !.threads = Without(@, k)]
    /\ UNCHANGED <<iv, dth, xp, rp>>
    /\ UNCHANGED notExt

NextThreads ==
    \/ thread_start_pattern
    \/ thread_stop_pattern
    \/ \E k \in DOMAIN thr.threads : thread_head(k)
    \/ \E k \in DOMAIN thr.threads : thread_tap(k)
    \/ \E k \in DOMAIN thr.threads : thread_gap(k)
    \/ \E k \in DOMAIN thr.threads : thread_end(k)

---------------------------------------------------------------------------
(* The detection threads of CatDetector (cat_detector.py). detection_active *)
(* and detection_thread are shared; each thread has its own position in     *)
(* _detection_loop. A slot holds "none" when no thread runs in it.           *)

ThreadSlots == 1 .. MaxThreads

\* The frames with a subject the model lets the threads classify.
MaxDetections == 2

\* The box the classifier finds in the n-th such frame.
DetectionBox(n) == <<5 + 3 * n, 5, 10, 10>>

\* positions and last are cat_positions and last_detection, seen the number
\* of boxes found so far, rect each thread's local cat_rect.
NoDth == [active |-> FALSE, handle |-> 0, joining |-> FALSE,
          threads |-> [k \in ThreadSlots |-> "none"], started |-> 0,
          positions |-> <<>>, last |-> <<>>, seen |-> 0,
          rect |-> [k \in ThreadSlots |-> <<>>]]

\* The detection threads that have not returned.
AliveDetection(d) == {k \in ThreadSlots : d.threads[k] # "none"}

\* start_detection: nothing while detection_active; otherwise the flag is
\* set and a new thread is created and started.
detection_start ==
    /\ ~dth.joining
    /\ IF dth.active
       THEN dth' = [dth EXCEPT !.started = 0]
       ELSE \E k \in ThreadSlots :
               /\ dth.threads[k] = "none"
               /\ dth' = [dth EXCEPT !.active = TRUE, !.handle = k,
                                     !.threads[k] = "head", !.started = 1]
    /\ UNCHANGED <<iv, thr, xp, rp>>
    /\ UNCHANGED notExt

\* stop_detection up to the join: the flag is cleared; with a thread handle
\* the caller waits in join(timeout=1.0).
detection_stop ==
    /\ ~dth.joining
    /\ dth' = [dth EXCEPT !.active = FALSE, !.joining = (dth.handle # 0), !.started = 0]
    /\ UNCHANGED <<iv, thr, xp, rp>>
    /\ UNCHANGED notExt

\* join returns: the thread has ended, or the second has passed while the
\* thread is inside get_current_frame; detection_thread = None.
detection_join_return ==
    /\ dth.joining
    /\ dth.threads[dth.handle] \in {"none", "capture"}
    /\ dth' = [dth EXCEPT !.joining = FALSE, !.handle = 0]
    /\ UNCHANGED <<iv, thr, xp, rp>>
    /\ UNCHANGED notExt

\* while self.detection_active
detection_thread_head(k) ==
    /\ dth.threads[k] = "head"
    /\ dth' = [dth EXCEPT !.threads[k] = IF dth.active THEN "capture" ELSE "none"]
    /\ UNCHANGED <<iv, thr, xp, rp>>
    /\ UNCHANGED notExt

\* detect_cat: get_current_frame returns a frame, or None and detect_cat
\* returns.
detection_thread_capture(k) ==
    /\ dth.threads[k] = "capture"
    /\ \E next \in {"classify", "sleep"} : dth' = [dth EXCEPT !.threads[k] = next]
    /\ UNCHANGED <<iv, thr, xp, rp>>
    /\ UNCHANGED notExt

\* detect_cat: the classifier has run; without a detection detect_cat
\* returns, with one the box is appended to the history.
detection_thread_classify(k) ==
    /\ dth.threads[k] = "classify"
    /\ \/ dth' = [dth EXCEPT !.threads[k] = "sleep"]
       \/ /\ dth.seen < MaxDetections
          /\ LET cat_rect == DetectionBox(dth.seen + 1)
             IN dth' = [dth EXCEPT !.threads[k] = "appended", !.rect[k] = cat_rect,
                                   !.seen = @ + 1,
                                   !.positions = Append(@, cat_rect)]
    /\ UNCHANGED <<iv, thr, xp, rp>>
    /\ UNCHANGED notExt

\* detect_cat after the append: the pop of a full history,
\* self.last_detection = cat_rect, return
detection_thread_store(k) ==
    /\ dth.threads[k] = "appended"
    /\ dth' = [dth EXCEPT !.threads[k] = "sleep", !.rect[k] = <<>>,
                          !.positions = Trim(@),
                          !.last = LastDetection(@, dth.rect[k])]
    /\ UNCHANGED <<iv, thr, xp, rp>>
    /\ UNCHANGED notExt

\* time.sleep(0.1)
detection_thread_sleep(k) ==
    /\ dth.threads[k] = "sleep"
    /\ dth' = [dth EXCEPT !.threads[k] = "head"]
    /\ UNCHANGED <<iv, thr, xp, rp>>
    /\ UNCHANGED notExt

NextDetection ==
    \/ detection_start
    \/ detection_stop
    \/ detection_join_return
    \/ \E k \in ThreadSlots : detection_thread_head(k)
    \/ \E k \in ThreadSlots : detection_thread_capture(k)
    \/ \E k \in ThreadSlots : detection_thread_classify(k)
    \/ \E k \in ThreadSlots : detection_thread_store(k)
    \/ \E k \in ThreadSlots : detection_thread_sleep(k)

---------------------------------------------------------------------------
(* PatternExecutor.execute_pattern, call by call (modules/patterns.py):      *)
(* pattern_active is set on entry and cleared on each of the three ways out. *)
(* session and runs are the observer's: a session begins at the Start button *)
(* and ends at Stop, runs counts the executions that returned in it.         *)

NoXp == [pc |-> "idle", session |-> FALSE, runs |-> 0, active |-> FALSE,
         type |-> "", rem |-> 0, taps |-> 0, path |-> "", result |-> FALSE]

\* A way out of execute_pattern that leaves the Active mark.
AfterExit_raised(path) == path = "raised"

\* pattern_active after execute_pattern has left by the path: self.stop_pattern()
\* precedes each return.
AfterExit(path) == FALSE

\* PetCubeHelper.start_pattern: self.pattern_executor.start_pattern()
execute_session_start ==
    /\ ~xp.session
    /\ xp' = [xp EXCEPT !.session = TRUE, !.runs = 0, !.active = TRUE]
    /\ UNCHANGED <<iv, thr, dth, rp>>
    /\ UNCHANGED notExt

\* PetCubeHelper.stop_pattern: self.pattern_executor.stop_pattern()
execute_session_stop ==
    /\ xp.session
    /\ xp' = [xp EXCEPT !.session = FALSE, !.active = FALSE]
    /\ UNCHANGED <<iv, thr, dth, rp>>
    /\ UNCHANGED notExt

\* execute_pattern is entered from the loop: self.start_pattern()
execute_pattern_enter ==
    /\ xp.pc = "idle"
    /\ xp.session
    /\ \E p \in PatternNames :
          xp' = [xp EXCEPT !.pc = "entered", !.active = TRUE, !.type = p,
                           !.rem = 0, !.taps = 0, !.path = "", !.result = FALSE]
    /\ UNCHANGED <<iv, thr, dth, rp>>
    /\ UNCHANGED notExt

\* The if/elif chain on pattern_type; the else branch returns False.
execute_pattern_dispatch ==
    /\ xp.pc = "entered"
    /\ IF xp.type \in BasicPatterns
       THEN \E i \in Intensities : \E n \in TapCounts(xp.type, i) :
               xp' = [xp EXCEPT !.pc = "run", !.rem = n]
       ELSE xp' = [xp EXCEPT !.pc = "returned", !.path = "unknown",
                             !.active = AfterExit("unknown"), !.result = FALSE,
                             !.runs = Min(2, @ + 1)]
    /\ UNCHANGED <<iv, thr, dth, rp>>
    /\ UNCHANGED notExt

\* One tap of the pattern, or an exception raised inside the pattern and
\* caught by execute_pattern, which returns False.
execute_pattern_tap ==
    /\ xp.pc = "run"
    /\ xp.rem > 0
    /\ \/ xp' = [xp EXCEPT !.rem = @ - 1, !.taps = @ + 1]
       \/ xp' = [xp EXCEPT !.pc = "returned", !.path = "raised",
                           !.active = AfterExit("raised"), !.result = FALSE,
                           !.runs = Min(2, @ + 1)]
    /\ UNCHANGED <<iv, thr, dth, rp>>
    /\ UNCHANGED notExt

\* The pattern has run to its end: self.stop_pattern(); return True
execute_pattern_complete ==
    /\ xp.pc = "run"
    /\ xp.rem = 0
    /\ xp' = [xp EXCEPT !.pc = "returned", !.path = "completed",
                        !.active = AfterExit("completed"), !.result = TRUE,
                        !.runs = Min(2, @ + 1)]
    /\ UNCHANGED <<iv, thr, dth, rp>>
    /\ UNCHANGED notExt

\* Back in the loop, until the next execution.
execute_pattern_return ==
    /\ xp.pc = "returned"
    /\ xp' = [xp EXCEPT !.pc = "idle"]
    /\ UNCHANGED <<iv, thr, dth, rp>>
    /\ UNCHANGED notExt

NextExecute ==
    \/ execute_session_start
    \/ execute_session_stop
    \/ execute_pattern_enter
    \/ execute_pattern_dispatch
    \/ execute_pattern_tap
    \/ execute_pattern_complete
    \/ execute_pattern_return

---------------------------------------------------------------------------
(* One pattern object and its executions (patterns/base_pattern.py): the     *)
(* commands are appended at construction by move_to, tap and wait; execute   *)
(* walks the list. taps holds the points handed to executor.execute_tap by   *)
(* the execution under way, prev those of the execution before.              *)

MoveTo(x, y, relative) == [command_type |-> "move", x |-> x, y |-> y, relative |-> relative]

TapAt(x, y, relative) == [command_type |-> "tap", x |-> x, y |-> y, relative |-> relative]

WaitFor(units) == [command_type |-> "wait", x |-> units, y |-> 0, relative |-> FALSE]

\* The command lists a _setup_commands may build.
ReplayCommands ==
    {<<MoveTo(500, 500, TRUE), WaitFor(1), TapAt(540, 1000, FALSE)>>,
     <<TapAt(1000, 0, TRUE), MoveTo(0, 1000, TRUE), WaitFor(2), MoveTo(2000, 2500, FALSE)>>,
     <<WaitFor(1)>>}

\* The zones the executor may hold at an execution.
ReplayZones == {DefaultSafeZone, calculate_safe_zone_pixels(DefaultSafeZonePct, 1080, 1920)}

\* The executions of one object the model follows.
MaxExecutions == 2

\* An execute that dispatches Move commands only.
DispatchesTap_move(command) == command.command_type = "move"

\* execute: "move" goes to _execute_move, "tap" to _execute_tap, which calls
\* _execute_move; "wait" dispatches no pattern tap.
DispatchesTap(command) == command.command_type \in {"move", "tap"}

NoRp == [pc |-> "none", commands |-> <<>>, built |-> <<>>, k |-> 0, runs |-> 0,
         intensity |-> 0, zone |-> <<>>, taps |-> <<>>,
         prev_intensity |-> 0, prev_zone |-> <<>>, prev |-> <<>>]

\* BasePattern.__init__: self.commands = [] and _setup_commands()
pattern_construct ==
    /\ rp.pc = "none"
    /\ \E commands \in ReplayCommands :
          rp' = [NoRp EXCEPT !.pc = "ready", !.commands = commands, !.built = commands]
    /\ UNCHANGED <<iv, thr, dth, xp>>
    /\ UNCHANGED notExt

\* execute(intensity) is called, the executor holding a zone.
pattern_execute ==
    /\ rp.pc = "ready"
    /\ rp.runs < MaxExecutions
    /\ \E i \in Intensities, z \in ReplayZones :
          rp' = [rp EXCEPT !.pc = "exec", !.k = 1, !.intensity = i, !.zone = z,
                           !.taps = <<>>, !.prev_intensity = rp.intensity,
                           !.prev_zone = rp.zone, !.prev = rp.taps]
    /\ UNCHANGED <<iv, thr, dth, xp>>
    /\ UNCHANGED notExt

\* One turn of "for command in self.commands".
pattern_command ==
    /\ rp.pc = "exec"
    /\ rp.k <= Len(rp.commands)
    /\ LET command == rp.commands[rp.k]
       IN rp' = [rp EXCEPT !.k = @ + 1,
                           !.taps = IF DispatchesTap(command)
                                    THEN Append(@, ResolveMove(command, rp.intensity, rp.zone))
                                    ELSE @]
    /\ UNCHANGED <<iv, thr, dth, xp>>
    /\ UNCHANGED notExt

\* The loop is over, execute returns.
pattern_executed ==
    /\ rp.pc = "exec"
    /\ rp.k > Len(rp.commands)
    /\ rp' = [rp EXCEPT !.pc = "ready", !.runs = @ + 1]
    /\ UNCHANGED <<iv, thr, dth, xp>>
    /\ UNCHANGED notExt

\* The object is dropped.
pattern_discard ==
    /\ rp.pc = "ready"
    /\ rp.runs >= 1
    /\ rp' = NoRp
    /\ UNCHANGED <<iv, thr, dth, xp>>
    /\ UNCHANGED notExt

NextReplay ==
    \/ pattern_construct
    \/ pattern_execute
    \/ pattern_command
    \/ pattern_executed
    \/ pattern_discard

ExtInit == iv = NoIv /\ thr = NoThr /\ dth = NoDth /\ xp = NoXp /\ rp = NoRp

---------------------------------------------------------------------------
(* The specifications.                                                     *)

Init == SchedInit /\ ZoneInit /\ TimeInit /\ ReactInit /\ FbInit /\ TrkInit /\ CfgInit /\ LibInit /\ MvxInit /\ SafInit /\ ExtInit

Spec == Init /\ [][Next]_vars

\* The loop thread keeps being scheduled.
FairSpec == Spec /\ WF_vars(LoopNext)

\* The dispatcher's safe zone under concurrent configuration.
SpecZone == Init /\ [][NextZone]_vars

\* The safety timer, the patterns' sleeps and the sliced waits.
SpecTime == Init /\ [][NextTime]_vars

\* The scheduler thread keeps running while its loop has a next step.
SessionNext == session_head \/ session_tap \/ session_sleep \/ session_gap

FairSpecTime == SpecTime /\ WF_vars(SessionNext)

\* The reactive generators against the tracker.
SpecReactive == Init /\ [][NextReact]_vars

\* The following and enrichment generators against a tracker with a history.
NextFollowing ==
    \/ detect_cat_tracked
    \/ following_start
    \/ following_step
    \/ enrichment_start
    \/ enrichment_step
    \/ generator_return

SpecFollowing == Init /\ [][NextFollowing]_vars

\* The interval-based scheduler, its thread always scheduled again.
SpecInterval == Init /\ [][NextInterval]_vars

FairSpecInterval == SpecInterval /\ WF_vars(IntervalLoop)

\* The loop threads under every order of the Start and Stop buttons.
SpecThreads == Init /\ [][NextThreads]_vars

\* The detection threads under every order of start_detection and
\* stop_detection.
SpecDetection == Init /\ [][NextDetection]_vars

\* execute_pattern called again and again by the loop of a session.
SpecExecute == Init /\ [][NextExecute]_vars

\* A pattern object built once and executed again.
SpecReplay == Init /\ [][NextReplay]_vars

\* The generators' fallback against a direct call of the kitty-mode pattern.
SpecFallback == Init /\ [][NextFallback]_vars

\* The tracker's detection thread against a reader of the history.
SpecTracker == Init /\ [][NextTracker]_vars

\* The safe-zone configuration from construction on, no pattern running.
SpecConfig == Init /\ [][NextConfig]_vars

\* The construction of the library's patterns.
SpecLibrary == Init /\ [][NextLibrary]_vars

\* Move commands executed under the zones the application can hold.
SpecMove == Init /\ [][NextMove]_vars

\* Safety movements and their log line.
SpecSafety == Init /\ [][NextSafety]_vars

\* The scheduler and the detection thread side by side: the Random pattern at
\* intensity 0.5 up to its execution, the detection loop in full.
start_random_pattern == StartPattern({"Random"}, {5})

NextLifecycle ==
    \/ launch_app
    \/ start_random_pattern
    \/ stop_pattern
    \/ toggle_cat_detection
    \/ loop_begin
    \/ loop_head
    \/ detection_loop_head
    \/ detect_cat_call
    \/ detect_cat_store
    \/ detection_sleep

SpecLifecycle == Init /\ [][NextLifecycle]_vars

---------------------------------------------------------------------------
(* Claims about the safe zone.                                             *)

\* C1: with enforcement enabled, every point forwarded to the device tap lies
\* inside the dispatcher's safe zone (a zone the dispatcher held during the call).
C1_Containment ==
    (call.pc = "sent" /\ call.enf) => \E z \in held : InZone(call.x, call.y, z)

\* C4: the four bounds a tap is clamped with are the bounds of one single
\* safe-zone value, the old one or the new one.
C4_NoTornRead ==
    (call.pc \in {"tap", "sent"} /\ call.enf) =>
        \E z \in held : call.rd = <<z.min_x, z.max_x, z.min_y, z.max_y>>

---------------------------------------------------------------------------
(* Claims about the safety timer and the timing of patterns.               *)

\* C2: in a running session of the continuous scheduler the time since the
\* last dispatched tap never exceeds 1.0 s plus one scheduling quantum.
C2_SafetyBound == sess.pc # "off" => gap_ms <= 1000 + Quantum

RECURSIVE SumMs(_)
SumMs(t) == IF t = <<>> THEN 0 ELSE Head(t).ms + SumMs(Tail(t))

\* C3: a completed Wait of resolved duration W is a sequence of sleeps of at most
\* 0.8 s each that sum to W, with exactly one safety tap between every two
\* consecutive sleeps and none after the last; with W <= 0.8 s there is no
\* safety tap, with W > 0.8 s there is at least one.
C3_WaitSlicing ==
    dsl.pc = "waited" =>
        LET t == dsl.trace IN
        /\ \A k \in 1..Len(t) :
              IF k % 2 = 1
              THEN t[k].op = "sleep" /\ 0 < t[k].ms /\ t[k].ms <= 800
              ELSE t[k].op = "tap"
        /\ Len(t) > 0 => t[Len(t)].op = "sleep"
        /\ SumMs(t) = dsl.W
        /\ (dsl.W <= 800) <=> (\A k \in 1..Len(t) : t[k].op # "tap")

\* A wait of exactly two slices was executed: 0.8 s, a safety tap, 0.8 s.
C3_Witness == dsl.pc = "waited" /\ dsl.W = 1600 /\ Len(dsl.trace) = 3

\* C7: every execute_tap call leaves the movement timestamp at the present
\* moment, whether or not the device tap succeeded, and returns the value the
\* device tap returned.
C7_TapUpdatesTimer ==
    last.op = "execute_tap" => idle_ms = 0 /\ last.returned = last.result

\* A tap on a selected device failed after time had passed since the last movement.
C7_Witness == last.op = "execute_tap" /\ device /\ ~last.result /\ last.idle > 0

\* C8: check_movement_safety returns true exactly when more than 1.0 s has
\* passed since the last movement, and leaves the timestamp as it was.
C8_SafetyDue ==
    last.op = "check" => (last.returned <=> last.idle > 1000) /\ idle_ms = last.idle

\* The check ran exactly 1.0 s after the last movement and returned false.
C8_Witness == last.op = "check" /\ last.idle = 1000 /\ ~last.returned

---------------------------------------------------------------------------
(* Claims about the reactive generators.                                   *)

\* C9: when the subject position read in a teasing turn is within
\* tease_distance of the decoy, the next decoy is strictly farther from that
\* position than tease_distance.
C9_TeasingRetreat ==
    (gen.kind = "teasing" /\ gen.ev = "retreat") =>
        Dist2(gen.target, gen.from) > tease_distance * tease_distance

\* C10: every enrichment target is at least 50 px from the subject centre it
\* was computed from.
C10_EnrichmentFloor ==
    (gen.kind = "enrichment" /\ gen.ev = "target") => Dist2(gen.target, gen.from) >= 50 * 50

---------------------------------------------------------------------------
(* Claims about the scheduler.                                             *)

\* C5: once stop_pattern() has set the flag, the scheduler dispatches at most the
\* one tap of the sub-step in progress and none after it.
C5_PromptCancellation == taps_since_stop <= 1

\* C6: after a stop that no start follows, the loop eventually exits, and an
\* exited loop dispatches no tap and stays exited until the next start.
C6_Termination ==
    /\ stop_event ~> (~stop_event \/ loop.pc = "exited")
    /\ [][loop.pc = "exited" =>
            (loop'.pc = "exited" /\ taps_since_stop' = taps_since_stop) \/ loop'.pc = "init"]_vars

C6_Witness == stop_event /\ loop.pc = "exited" /\ loop.cur = "Kitty Mode"

---------------------------------------------------------------------------
(* Claims about the fallback.                                              *)

\* The taps of execute_kitty_mode_pattern(intensity) called directly on the
\* same random stream, safe zone and clock.
DirectKittyTaps(f) == KittyRun(execute_kitty_mode_pattern(f.intensity, f.seed, f.lat, f.zone)).taps

---------------------------------------------------------------------------
(* Claims about the tracker.                                               *)

C13_LastTwoEntries ==
    mv.pc = "done" =>
        /\ mv.result = <<>> <=> mv.n < 2
        /\ mv.result # <<>> => mv.result \in {mv.at_call, mv.at_read}

\* The last n entries of a sequence.
LastN(h, n) == SubSeq(h, Len(h) - n + 1, Len(h))

\* C14: whenever no detect_cat is between its append and its trim, the history
\* holds at most max_positions entries and is the last min(n, max_positions) of
\* the n boxes detected, in capture order (so a full history lost its oldest).
C14_BoundedHistory ==
    det.pc # "appended" =>
        /\ Len(cat_positions) <= max_positions
        /\ cat_positions = LastN(obs.log, Min(Len(obs.log), max_positions))

C14_Witness ==
    /\ det.pc = "sleep"
    /\ Len(obs.log) = max_positions + 1
    /\ Len(cat_positions) = max_positions
    /\ cat_positions[1] = obs.log[2]
    /\ cat_positions[max_positions] = obs.log[max_positions + 1]

\* C15: any two invocations of the detector are at least detection_interval
\* apart (a call sooner than that after an invocation returns the cached value).
C15_Throttle == ~obs.close

\* C16: a detect_cat whose capture failed, whose model could not be loaded or
\* whose detector raised returned None, left the history and the last detection
\* as they were, and left the detection loop running.
C16_FailurePolicy ==
    obs.outcome \in {"no frame", "no model", "raised"} =>
        /\ obs.value = <<>>
        /\ cat_positions = obs.positions
        /\ cat_pos = obs.last
        /\ det.pc # "dead"

C16_Witness ==
    /\ obs.outcome = "raised"
    /\ det.pc = "head"
    /\ det.active
    /\ cat_pos # <<>>
    /\ Len(cat_positions) >= 2

---------------------------------------------------------------------------
(* Claims about failed taps.                                               *)

\* C17: a pattern execution dispatches each tap of its sequence once, in order,
\* whatever the device reported for the taps before: before its k-th tap it has
\* dispatched k - 1, and at its end all of them and no more.
C17_FailedTapNoAbort ==
    /\ sess.pc = "tap" => sess.issued = sess.planned - sess.rem
    /\ sess.pc = "sleep" => sess.issued = sess.planned - sess.rem + 1
    /\ sess.pc = "gap" => sess.issued = sess.planned

C17_Witness ==
    /\ sess.pc = "gap"
    /\ sess.failed_first
    /\ sess.planned >= 15
    /\ sess.issued = sess.planned

\* C18: a session cannot go on for ever with every tap failing: again and again
\* the loop is off, or a tap has succeeded.
C18_UnreachableIsTerminal ==
    []<>(sess.pc = "off" \/ (last.op = "execute_tap" /\ last.result))

---------------------------------------------------------------------------
(* Claims about the safe-zone configuration.                               *)

\* C19: an update_safe_zone given min >= max on an axis or a bound outside
\* [0, 1] fails, and leaves the stored fractions and the dispatcher's safe zone
\* as they were.
C19_InvalidRejected ==
    (cfg.op = "update_safe_zone" /\ cfg.kind # "valid") =>
        /\ ~cfg.ok
        /\ safe_zone_pct = cfg.pct
        /\ safe_zone = cfg.zone

C19_Witness ==
    /\ cfg.op = "update_safe_zone"
    /\ cfg.kind = "out of range"
    /\ ~cfg.ok
    /\ screen # <<>>
    /\ safe_zone_pct # DefaultSafeZonePct

\* C20: the dispatcher's pixel safe zone has min_x < max_x and min_y < max_y.
C20_SafeZoneInvariant ==
    /\ safe_zone.min_x < safe_zone.max_x
    /\ safe_zone.min_y < safe_zone.max_y

---------------------------------------------------------------------------
(* Claims about the pattern library.                                       *)

\* C21: every Move a library pattern emits is relative and has both of its
\* coordinates in [0.1, 0.9].
C21_MovesInBounds ==
    lib.move # <<>> =>
        /\ lib.move.relative
        /\ 100 <= lib.move.x /\ lib.move.x <= 900
        /\ 100 <= lib.move.y /\ lib.move.y <= 900

\* C22: a relative Move (cx, cy) executed at intensity i requests
\* (trunc(min_x + cx*width*i), trunc(min_y + cy*height*i)), an absolute Move
\* requests its raw coordinates; and for cx, cy in [0, 1] and i in (0, 1] the
\* requested point is inside the safe zone, so that the clamp leaves it as it is.
C22_RelativeMove ==
    mvx.pc # "idle" =>
        LET c == mvx.command
            z == mvx.zone
            width == z.max_x - z.min_x
            height == z.max_y - z.min_y
        IN /\ c.relative =>
                 /\ mvx.requested[1] = TruncDiv(z.min_x * 10000 + c.x * width * mvx.intensity, 10000)
                 /\ mvx.requested[2] = TruncDiv(z.min_y * 10000 + c.y * height * mvx.intensity, 10000)
           /\ ~c.relative => mvx.requested = <<c.x, c.y>>
           /\ (c.relative /\ c.x \in 0..1000 /\ c.y \in 0..1000 /\ mvx.intensity \in 1..10) =>
                 /\ InZone(mvx.requested[1], mvx.requested[2], z)
                 /\ mvx.sent = mvx.requested

\* C24: a point dispatched with enforcement enabled and dispatched again under
\* the same zone goes to the device unchanged.
C24_ClampIdempotent ==
    (mvx.pc = "again" /\ mvx.enforce) => mvx.again = mvx.sent

\* C24 witness: an absolute Move outside the zone was clamped, dispatched
\* again with enforcement enabled, and came out the same.
C24_Witness ==
    /\ mvx.pc = "again"
    /\ mvx.enforce
    /\ mvx.enforce_again
    /\ mvx.sent # mvx.requested
    /\ mvx.again = mvx.sent

\* C23: a Wait of u units sleeps u * time_unit_ms / 1000 * (2.0 - intensity)
\* seconds in total, and at any other intensity the same Wait under the same
\* time unit is shorter if that intensity is higher, longer if it is lower.
C23_WaitDuration ==
    dsl.pc = "waited" =>
        /\ SumMs(dsl.trace) * 100 = dsl.units10 * dsl.time_unit_ms * (20 - dsl.intensity)
        /\ \A j \in Intensities :
              /\ j > dsl.intensity =>
                     WaitTime(dsl.units10, dsl.time_unit_ms, j) < SumMs(dsl.trace)
              /\ j < dsl.intensity =>
                     WaitTime(dsl.units10, dsl.time_unit_ms, j) > SumMs(dsl.trace)

\* C23 witness: wait(1.5) under a time unit of one second at intensity 0.5
\* has slept 2.25 s.
C23_Witness ==
    /\ dsl.pc = "waited"
    /\ dsl.units10 = 15 /\ dsl.time_unit_ms = 1000 /\ dsl.intensity = 5
    /\ SumMs(dsl.trace) = 2250

---------------------------------------------------------------------------
(* Claims about the pattern changes of the continuous scheduler.           *)

\* C25: at a pattern-change event the scheduler keeps the primary pattern, or
\* picks a pattern of the active catalog that is not the primary pattern.
C25_Variation ==
    (loop.chg # <<>> /\ loop.chg.branch # "none") =>
        \/ loop.chg.branch = "keep" /\ loop.cur = loop.main
        \/ loop.chg.branch = "vary" /\ loop.cur \in Catalog(loop.full) /\ loop.cur # loop.main

C27_ChangeTiming ==
    loop.chg # <<>> =>
        /\ loop.cur # loop.chg.prev => loop.chg.at <= 0
        /\ loop.chg.at <= 0 => (loop.chg.branch # "none" /\ loop.left = loop.interval)
        /\ loop.chg.at > 0 =>
              (loop.chg.branch = "none" /\ loop.cur = loop.chg.prev /\ loop.left = loop.chg.at)

\* C27 witness: a pass at intensity 1.0 where the change was due moved to
\* another pattern and set the next change two seconds ahead.
C27_Witness ==
    /\ loop.chg # <<>>
    /\ loop.chg.at = 0 /\ loop.cur # loop.chg.prev
    /\ loop.intensity = 10 /\ loop.interval = 2 /\ loop.left = 2

---------------------------------------------------------------------------
(* Claims about the safety movement.                                       *)

\* C28: make_safety_movement dispatches exactly one tap, and writes its log
\* line if and only if verbose logging is on or no pattern is active.
C28_SafetyLogging ==
    saf.pc = "done" =>
        /\ Len(saf.taps) = 1
        /\ saf.logged <=> (saf.verbose \/ ~saf.active)

---------------------------------------------------------------------------
(* Claims about the lifecycles of the scheduler and the detection thread.  *)

\* C29: a step that sets the scheduler's stop flag leaves the detection flag,
\* thread, history and last detection as they are; a step that clears the
\* detection flag leaves the stop flag and the loop as they are; and a step that
\* starts one of the two tasks leaves the other as it is.
C29_IndependentLifecycles ==
    [][ /\ (~stop_event /\ stop_event') =>
              (det' = det /\ cat_positions' = cat_positions /\ cat_pos' = cat_pos)
        /\ (det.active /\ ~det'.active) => (stop_event' = stop_event /\ loop' = loop)
        /\ (loop.pc # "init" /\ loop'.pc = "init") =>
              (det' = det /\ cat_positions' = cat_positions /\ cat_pos' = cat_pos)
        /\ (~det.active /\ det'.active) => (stop_event' = stop_event /\ loop' = loop)
      ]_vars

\* C29 witness: the patterns have been stopped and their loop has exited while
\* detection is active with a detection in its history.
C29_Witness ==
    /\ stop_event /\ loop.pc = "exited"
    /\ det.active /\ cat_positions # <<>> /\ cat_pos # <<>>

---------------------------------------------------------------------------
(* Claims about the re-reads of the reactive generators.                    *)

\* C30: the following and the enrichment generator compute no more than 3
\* consecutive taps from one reading of the tracker, and every re-read of the
\* following generator derives the lead point anew from the centre just read.
C30_PeriodicReread ==
    gen.kind \in {"following", "enrichment"} =>
        /\ gen.used <= 3
        /\ (gen.kind = "following" /\ gen.ev = "reread") => gen.age = 0

---------------------------------------------------------------------------
(* Claims about the interval-based scheduler.                               *)

\* C31: once an execution of the pattern has ended and the wait has begun,
\* the next execution starts or a stop is requested.
C31_IntervalProgress ==
    (iv.pc = "wait" /\ ~iv.stop) ~> (iv.pc = "exec" \/ iv.stop)

---------------------------------------------------------------------------
(* Claims about the threads.                                                *)

\* C32: at most one scheduler loop thread is running at any time.
C32_SingleScheduler == Cardinality(LiveThreads(thr)) <= 1

\* C33: at most one detection loop thread is alive at any time.
C33_SingleTracker == Cardinality(AliveDetection(dth)) <= 1

---------------------------------------------------------------------------
(* Claims about the names the scheduler hands to execute_pattern.           *)

\* C34: the pattern a pass of the loop head hands to execute_pattern is one
\* execute_pattern recognises, and its execution dispatches at least one tap.
C34_Recognised ==
    loop.chg # <<>> => (loop.pc = "run" /\ loop.rem >= 1)

---------------------------------------------------------------------------
(* Claims about the tracker's shared state.                                 *)

\* C35: the two boxes a get_cat_movement_vector that returned a vector used
\* are two entries the tracker recorded one right after the other.
C35_AdjacentEntries ==
    (mv.pc = "done" /\ mv.result # <<>>) =>
        \E k \in 1 .. Len(obs.log) - 1 :
            obs.log[k] = mv.first /\ obs.log[k + 1] = mv.second

---------------------------------------------------------------------------
(* Claims about execute_pattern.                                            *)

\* C36: execute_pattern marks the dispatcher Active on entry and leaves it
\* Idle on every way out: completion returns true, an unknown type returns
\* false with no tap, an exception inside the pattern is caught and returns
\* false; so between two executions of a running session it is Idle.
C36_IdleOnExit ==
    [][/\ (xp.pc = "idle" /\ xp'.pc = "entered") => xp'.active
       /\ (xp.pc # "returned" /\ xp'.pc = "returned") =>
             /\ ~xp'.active
             /\ xp'.result <=> xp'.path = "completed"
             /\ xp'.path = "unknown" => xp'.taps = 0
       /\ (xp'.pc = "idle" /\ xp'.session /\ xp'.runs >= 1) => ~xp'.active]_vars

\* C36 witness: an execution that raised after two taps has returned false
\* and the session, with one execution before it, waits for the next.
C36_Witness ==
    /\ xp.pc = "idle" /\ xp.session /\ xp.runs = 2
    /\ xp.path = "raised" /\ xp.taps = 2 /\ ~xp.result /\ ~xp.active

---------------------------------------------------------------------------
(* Claims about the replay of a pattern object.                             *)

\* The points the Move and Tap commands of a list request, in order.
RECURSIVE PatternTaps(_, _, _)
PatternTaps(commands, i, z) ==
    IF commands = <<>> THEN <<>>
    ELSE LET rest == PatternTaps(Tail(commands), i, z)
         IN IF Head(commands).command_type = "wait" THEN rest
            ELSE <<ResolveMove(Head(commands), i, z)>> \o rest

\* C37: an execution requests one tap per Move or Tap command, in the order
\* the commands were appended at construction, and leaves the list as it was
\* built; a second execution at the same intensity under the same zone
\* requests the taps of the first.
C37_Replay ==
    /\ rp.commands = rp.built
    /\ (rp.pc = "ready" /\ rp.runs >= 1) =>
          /\ rp.taps = PatternTaps(rp.built, rp.intensity, rp.zone)
          /\ (rp.runs >= 2 /\ rp.intensity = rp.prev_intensity /\ rp.zone = rp.prev_zone)
                => rp.taps = rp.prev

\* C37 witness: the list of four commands was executed twice at intensity 0.5
\* under the default zone, three taps each time.
C37_Witness ==
    /\ rp.pc = "ready" /\ rp.runs = 2
    /\ Len(rp.built) = 4 /\ Len(rp.taps) = 3
    /\ rp.intensity = 5 /\ rp.prev_intensity = 5
    /\ rp.zone = DefaultSafeZone /\ rp.prev_zone = DefaultSafeZone
    /\ rp.prev = rp.taps

\* C38: whenever no detect_cat is between its append and its assignment of
\* the last detection, the last detection is the newest entry of the history,
\* absent exactly when the history is empty; and once set it is never absent
\* again.
C38_TrackerState ==
    /\ []((\A k \in ThreadSlots : dth.threads[k] # "appended") =>
            /\ dth.last = <<>> <=> dth.positions = <<>>
            /\ dth.positions # <<>> => dth.last = dth.positions[Len(dth.positions)])
    /\ [][dth.last # <<>> => dth'.last # <<>>]_vars

---------------------------------------------------------------------------
(* Claims about the points of safety movements.                             *)

\* C39: the tap of a safety movement lies inside a safe zone the dispatcher
\* held during the movement, bounds included, whether or not enforcement is
\* enabled; with enforcement disabled the point drawn goes to the device
\* unchanged.
C39_SafetyTapInZone ==
    (saf.pc = "done" /\ ~saf.raised) =>
        /\ \E z \in saf.zones : InZone(saf.taps[1][1], saf.taps[1][2], z)
        /\ ~saf.enforce => saf.taps[1] = <<saf.x, saf.y>>

---------------------------------------------------------------------------
(* Claims about the pixel rectangle and the configuration.                  *)

\* ADBUtility.__init__: screen_width = 1080, screen_height = 1920 until
\* get_screen_dimensions has read the device's.
DefaultScreen == <<1080, 1920>>

\* The resolution in force: the device's once it is known.
Resolution == IF screen = <<>> THEN DefaultScreen ELSE screen

\* C40: once the application is constructed, the dispatcher's pixel safe zone
\* is the rectangle calculate_safe_zone_pixels derives from the stored
\* fractions and the resolution in force.
C40_RectangleTracksConfig ==
    cfg.op # "none" =>
        safe_zone = calculate_safe_zone_pixels(safe_zone_pct, Resolution[1], Resolution[2])

====
